---- MODULE Spec2Model ----
(***************************************************************************)
(* Slide-extraction pipeline of the presentation annotator                 *)
(* (server/services/presentationService.ts) together with the storage      *)
(* layer it persists through (server/storage.ts, sqliteService).           *)
(*                                                                         *)
(* One behaviour is one call processPresentation(filename, filePath).      *)
(* Every await of the function is one step.  The external tools (soffice,  *)
(* pdftoppm, convert), the database and the archive reader are the         *)
(* environment: each call returns one of the outcomes the tool can have.   *)
(* A file name is a sequence of one-character strings so that the regular  *)
(* expressions of the source are computed and not assumed.                 *)
(***************************************************************************)
EXTENDS Integers, Sequences, FiniteSets, TLC

\* ------------------------------------------------------------------------
\* Bounds
\* ------------------------------------------------------------------------

\* number of storage.saveSlide calls of one run whose primary insert may fail
MaxSaveFailures == 1

\* requests (annotation routes and uploads) the server receives in one run
MaxRequests == 3

\* ------------------------------------------------------------------------
\* Program constants
\* ------------------------------------------------------------------------

\* the default slide count
DefaultSlideCount == 10

\* ------------------------------------------------------------------------
\* Characters, regular expressions, parseInt
\* ------------------------------------------------------------------------

Digits == {"0", "1", "2", "3", "4", "5", "6", "7", "8", "9"}

DigitVal(c) ==
  CASE c = "0" -> 0 [] c = "1" -> 1 [] c = "2" -> 2 [] c = "3" -> 3
    [] c = "4" -> 4 [] c = "5" -> 5 [] c = "6" -> 6 [] c = "7" -> 7
    [] c = "8" -> 8 [] c = "9" -> 9

\* the literal lit occurs in s at position i
HasAt(s, i, lit) ==
  /\ i >= 1
  /\ i + Len(lit) - 1 <= Len(s)
  /\ \A k \in 1..Len(lit) : s[i + k - 1] = lit[k]

\* length of the longest run of digits of s that starts at position i: \d*
DigitRun(s, i) ==
  CHOOSE n \in 0..(Len(s) - i + 1) :
    /\ \A k \in 0..(n - 1) : s[i + k] \in Digits
    /\ (i + n > Len(s) \/ s[i + n] \notin Digits)

\* the start positions at which  pre(\d+)post  matches in s; post begins with
\* a non-digit, so the greedy \d+ takes the whole run or the match fails
MatchStarts(s, pre, post) ==
  { i \in 1..Len(s) :
      /\ HasAt(s, i, pre)
      /\ DigitRun(s, i + Len(pre)) >= 1
      /\ HasAt(s, i + Len(pre) + DigitRun(s, i + Len(pre)), post) }

Min(S) == CHOOSE x \in S : \A y \in S : x <= y

\* RegExp test: pre(\d+)post matches somewhere in s
Test(s, pre, post) == MatchStarts(s, pre, post) # {}

\* capture group 1 of the leftmost match of pre(\d+)post in s
Capture(s, pre, post) ==
  LET i == Min(MatchStarts(s, pre, post))
      j == i + Len(pre)
  IN  SubSeq(s, j, j + DigitRun(s, j) - 1)

\* s.replace(/pre(\d+)post/, '$1'): the leftmost match replaced by its group
ReplaceByGroup(s, pre, post) ==
  IF ~Test(s, pre, post) THEN s
  ELSE LET i == Min(MatchStarts(s, pre, post))
           j == i + Len(pre)
           r == DigitRun(s, j)
       IN  SubSeq(s, 1, i - 1) \o SubSeq(s, j, j + r - 1)
             \o SubSeq(s, j + r + Len(post), Len(s))

RECURSIVE DecimalValue(_)
DecimalValue(ds) ==
  IF Len(ds) = 0 THEN 0
  ELSE 10 * DecimalValue(SubSeq(ds, 1, Len(ds) - 1)) + DigitVal(ds[Len(ds)])

NaN == -1

\* parseInt(s): the value of the leading digits of s, NaN when there is none
parseInt(s) ==
  IF DigitRun(s, 1) = 0 THEN NaN ELSE DecimalValue(SubSeq(s, 1, DigitRun(s, 1)))

\* s.endsWith(suffix)
endsWith(s, suffix) == HasAt(s, Len(s) - Len(suffix) + 1, suffix)

toLowerChar(c) ==
  CASE c = "P" -> "p" [] c = "T" -> "t" [] c = "X" -> "x" [] OTHER -> c

\* s.toLowerCase()
toLowerCase(s) == [k \in 1..Len(s) |-> toLowerChar(s[k])]

\* Array.prototype.filter: the elements of xs that satisfy P, in order
Filter(xs, P(_)) ==
  LET F[k \in 0..Len(xs)] ==
        IF k = 0 THEN <<>>
        ELSE IF P(xs[k]) THEN Append(F[k - 1], xs[k]) ELSE F[k - 1]
  IN  F[Len(xs)]

\* Op(v) for the one element v of the set S, with v computed once
ValueOf(S, Op(_)) == (CHOOSE p \in { <<Op(v)>> : v \in S } : TRUE)[1]

\* the elements of v in ascending order of their keys, elements with equal
\* keys in their order in v; keyed is the set of the <<position, key>> pairs
Place(v, keyed) ==
  [r \in 1..Len(v) |->
     v[(CHOOSE p \in keyed :
          Cardinality({ q \in keyed :
             \/ q[2] < p[2]
             \/ (q[2] = p[2] /\ q[1] < p[1]) }) = r - 1)[1]]]

\* Array.prototype.sort((a, b) => key(a) - key(b)): ascending by key and
\* stable, so an element goes after every element with a smaller key and
\* after the earlier elements with the same key
SortByKey(xs, key(_)) ==
  LET Keyed(v) == ValueOf({ { <<i, key(v[i])>> : i \in 1..Len(v) } },
                          LAMBDA keyed : Place(v, keyed))
  IN  ValueOf({ xs }, Keyed)

\* ------------------------------------------------------------------------
\* File names of the scratch directory and the numbers read from them
\* ------------------------------------------------------------------------

cSlide == <<"s", "l", "i", "d", "e">>
cSlideDash == <<"s", "l", "i", "d", "e", "-">>
cPng == <<".", "p", "n", "g">>
cJpg == <<".", "j", "p", "g">>
cXml == <<".", "x", "m", "l">>
cPptx == <<".", "p", "p", "t", "x">>
cSlidesDir == <<"p", "p", "t", "/", "s", "l", "i", "d", "e", "s", "/">>
cSlidesDirSlide == cSlidesDir \o cSlide
cManifest == <<"p", "p", "t", "/", "p", "r", "e", "s", "e", "n", "t", "a",
               "t", "i", "o", "n", ".", "x", "m", "l">>

\* the first run of digits of s, /(\d+)/, empty when s has no digit
FirstDigits(s) ==
  IF \E i \in 1..Len(s) : s[i] \in Digits
  THEN LET i == Min({ k \in 1..Len(s) : s[k] \in Digits })
       IN  SubSeq(s, i, i + DigitRun(s, i) - 1)
  ELSE <<>>

\* getNumber of the two pdftoppm strategies: "slide-XX.png", then
\* "slideXX.png", then any number of the name, else 0
getNumber(filename) ==
  IF Test(filename, cSlideDash, cPng)
  THEN parseInt(Capture(filename, cSlideDash, cPng))
  ELSE IF Test(filename, cSlide, cPng)
       THEN parseInt(Capture(filename, cSlide, cPng))
       ELSE IF FirstDigits(filename) # <<>> THEN parseInt(FirstDigits(filename))
            ELSE 0

\* sort key of the ImageMagick strategy:
\* parseInt(a.replace(/slide-(\d+)\.jpg/, '$1')) || 0
jpgNumber(filename) ==
  LET n == parseInt(ReplaceByGroup(filename, cSlideDash, cJpg))
  IN  IF n = NaN THEN 0 ELSE n

\* sort key of processSlides: the number of /slide([0-9]+)\.xml/, else 0
xmlNumber(entryName) ==
  IF Test(entryName, cSlide, cXml)
  THEN parseInt(Capture(entryName, cSlide, cXml))
  ELSE 0

isPng(f) == endsWith(f.name, cPng)
isSlideJpg(f) == Test(f.name, cSlideDash, cJpg)
isSlidePng(f) == Test(f.name, cSlideDash, cPng)
isSlideXml(entryName) == Test(entryName, cSlidesDirSlide, cXml)

fileNumber(f) == getNumber(f.name)
fileJpgNumber(f) == jpgNumber(f.name)

\* variant of sortedPngFiles: the listing is filtered but not sorted
sortedPngFiles_unsorted(dir) == Filter(dir, isPng)

\* readdirSync(imagesDir).filter(endsWith('.png')).sort(by getNumber)
sortedPngFiles(dir) == SortByKey(Filter(dir, isPng), fileNumber)

\* readdirSync(imagesDir).filter(/slide-\d+\.jpg/).sort(by number)
sortedJpgFiles(dir) == SortByKey(Filter(dir, isSlideJpg), fileJpgNumber)

\* a tool writes the files out into the directory dir: a file of the same
\* name is overwritten in place, a new one is listed after the others
writeFiles(dir, out) ==
  [k \in 1..Len(dir) |->
     IF \E j \in 1..Len(out) : out[j].name = dir[k].name
     THEN out[CHOOSE j \in 1..Len(out) : out[j].name = dir[k].name]
     ELSE dir[k]]
  \o Filter(out, LAMBDA f : \A k \in 1..Len(dir) : dir[k].name # f.name)

\* fs.unlinkSync(imagePath)
unlinkFile(dir, f) == Filter(dir, LAMBDA g : g.name # f.name)

\* the files a tool leaves: the names, each with the tool that wrote it
filesOf(names, tool) == [k \in 1..Len(names) |-> [name |-> names[k], tool |-> tool]]

pngName(digits) == cSlideDash \o digits \o cPng
jpgName(digits) == cSlideDash \o digits \o cJpg

\* directory listings pdftoppm can leave, in the order readdirSync lists them
Png2 == << pngName(<<"2">>), pngName(<<"1">>) >>
Png10 == << pngName(<<"1", "0">>), pngName(<<"0", "3">>), pngName(<<"0", "1">>),
            pngName(<<"0", "2">>), pngName(<<"0", "9">>), pngName(<<"0", "4">>),
            pngName(<<"0", "8">>), pngName(<<"0", "5">>), pngName(<<"0", "7">>),
            pngName(<<"0", "6">>) >>
\* names of other rasterizer versions: concatenated, and without a number
PngOther == << cSlide \o <<"2">> \o cPng, <<"p", "a", "g", "e">> \o cPng,
               pngName(<<"1">>) >>
PngOutputs == { <<>>, Png2, Png10, PngOther }
\* what a pdftoppm run that ends with an error may have written before
PngPartial == { <<>>, PngOther }

\* directory listings of convert ... slide-%d.jpg
Jpg3 == << jpgName(<<"2">>), jpgName(<<"0">>), jpgName(<<"1">>) >>
JpgOutputs == { <<>>, Jpg3 }
JpgPartial == { <<>> }

\* ------------------------------------------------------------------------
\* The uploaded file
\* ------------------------------------------------------------------------

slideXmlName(digits) == cSlidesDirSlide \o digits \o cXml

\* archives: the entry names in archive order, the number of <p:sldId markers
\* of ppt/presentation.xml, and the entries whose data cannot be read
Entries0 == << cManifest >>
Entries2 == << slideXmlName(<<"2">>), cManifest, slideXmlName(<<"1">>) >>
Entries3 == << slideXmlName(<<"7">>), slideXmlName(<<"1">>), slideXmlName(<<"3">>) >>

Upload(ext, readable, entries, sldIds, corrupt) ==
  [ext |-> ext, readable |-> readable, entries |-> entries,
   sldIds |-> sldIds, corrupt |-> corrupt]

Uploads ==
  { Upload(cPptx, TRUE, Entries0, 0, {}),
    Upload(cPptx, TRUE, Entries0, 2, {}),
    Upload(<<".", "P", "P", "T", "X">>, TRUE, Entries2, 2, {}),
    Upload(cPptx, TRUE, Entries3, 0, {}),
    Upload(cPptx, TRUE, Entries3, 0, {slideXmlName(<<"3">>)}),
    Upload(cPptx, FALSE, <<>>, 0, {}),
    Upload(<<".", "p", "p", "t">>, FALSE, <<>>, 0, {}),
    Upload(<<".", "p", "p", "t">>, TRUE, Entries2, 2, {}) }

\* variant of getSlideCount: the extension is compared as written
getSlideCount_caseSensitive(u) ==
  IF ~endsWith(u.ext, cPptx) THEN DefaultSlideCount
  ELSE IF ~u.readable THEN DefaultSlideCount
  ELSE LET slideEntries == Filter(u.entries, isSlideXml)
       IN  IF Len(slideEntries) > 0 THEN Len(slideEntries)
           ELSE IF (\E k \in 1..Len(u.entries) : u.entries[k] = cManifest)
                   /\ u.sldIds > 0
                THEN u.sldIds
                ELSE DefaultSlideCount

\* getSlideCount(filePath)
getSlideCount(u) ==
  IF ~endsWith(toLowerCase(u.ext), cPptx) THEN DefaultSlideCount
  ELSE IF ~u.readable THEN DefaultSlideCount
  ELSE LET slideEntries == Filter(u.entries, isSlideXml)
       IN  IF Len(slideEntries) > 0 THEN Len(slideEntries)
           ELSE IF (\E k \in 1..Len(u.entries) : u.entries[k] = cManifest)
                   /\ u.sldIds > 0
                THEN u.sldIds
                ELSE DefaultSlideCount

\* variant of sortedSlideXMLs: the entries in archive order
sortedSlideXMLs_unsorted(u) == Filter(u.entries, isSlideXml)

\* the slide-XML entries of processSlides, sorted by their number
sortedSlideXMLs(u) == SortByKey(Filter(u.entries, isSlideXml), xmlNumber)

\* ------------------------------------------------------------------------
\* Images
\* ------------------------------------------------------------------------

\* the bytes of a scratch file: what the tool wrote under that name
rasterImage(f) ==
  [kind |-> "raster", name |-> f.name, tool |-> f.tool, number |-> 0, total |-> 0]

\* createRichSlideVisualization(slideNumber, totalSlides, ...) of an entry
createRichSlideVisualization(slideNumber, totalSlides, entryName) ==
  [kind |-> "rich", name |-> entryName, tool |-> "svg",
   number |-> slideNumber, total |-> totalSlides]

\* variant of createPlaceholderImage: the footer shows the slide number twice
createPlaceholderImage_numberAsTotal(slideNumber, totalSlides) ==
  [kind |-> "placeholder", name |-> <<>>, tool |-> "svg",
   number |-> slideNumber, total |-> slideNumber]

\* createPlaceholderImage(slideNumber, totalSlides)
createPlaceholderImage(slideNumber, totalSlides) ==
  [kind |-> "placeholder", name |-> <<>>, tool |-> "svg",
   number |-> slideNumber, total |-> totalSlides]

NoImage == [kind |-> "none", name |-> <<>>, tool |-> "none", number |-> 0, total |-> 0]

\* ------------------------------------------------------------------------
\* Errors, responses and client requests
\* ------------------------------------------------------------------------

\* exceptions: instances of Error with their message
NoError == [isError |-> FALSE, message |-> "none"]
PresentationInsertError == [isError |-> TRUE, message |-> "insert into presentations failed"]
SlideInsertError == [isError |-> TRUE, message |-> "insert into slides failed"]
MkdirError == [isError |-> TRUE, message |-> "mkdir failed"]
SlideNotFound == [isError |-> TRUE, message |-> "Slide not found"]
SlideLookupError == [isError |-> TRUE, message |-> "select from slides failed"]
AnnotationInsertError ==
  [isError |-> TRUE, message |-> "insert into slide_annotations failed"]

\* HTTP responses: status, message of the JSON body, presentation_id
NoResponse == [status |-> 0, message |-> "none", presentation_id |-> 0]

\* the clients that send requests to the annotation routes
Clients == {"c1", "c2"}

\* a slide lookup that found no row
NoSlide == [presentation_id |-> 0, slide_id |-> 0, slide_number |-> 0, image |-> NoImage]

\* no response of the slide-image route yet
NoImageResponse == [status |-> 0, slideId |-> 0, contentType |-> "none", body |-> <<>>]

\* a client without a request
IdleRequest ==
  [op |-> "none", pc |-> "idle", slideId |-> 0, presentationId |-> 0,
   tags |-> <<>>, slide |-> NoSlide, status |-> 0, message |-> "none",
   body |-> <<>>, alone |-> FALSE, othersKept |-> FALSE,
   submittedBefore |-> FALSE]

\* ------------------------------------------------------------------------
\* State
\* ------------------------------------------------------------------------

VARIABLES
  pc,              \* position of the processPresentation call
  upload,          \* the uploaded file at filePath (extension and content)
  uploadExists,    \* the temporary upload file is on disk
  presentations,   \* primary store, table presentations
  slides,          \* primary store, table slides, in insertion order
  sqliteInput,     \* mirror store, table input, in insertion order
  uuids,           \* number of uuidv4() values drawn; the k-th value is k
  presentationId,  \* local of processPresentation, 0 before it is set
  outputDirExists, \* uploads/<presentationId> exists
  imagesDir,       \* listing of uploads/<presentationId>/images
  pdfExists,       \* uploads/<presentationId>/presentation.pdf exists
  totalSlides,     \* local of processPresentation
  success,         \* local of processPresentation
  queue,           \* the list the running loop iterates over
  idx,             \* 1-based position of the running loop (i + 1, or i)
  loopTotal,       \* totalSlides of processSlides / createFallbackSlides
  saveFailures,    \* failed primary inserts so far
  mirrorDown,      \* the mirror database rejects the writes of this run
  trace,           \* the calls made so far: tools, processSlides, saveSlide
  result,          \* "none", "returned" or "thrown"
  error,           \* the exception on its way to the caller of processPresentation
  response,        \* the response of POST /api/presentations
  annotations,     \* primary store, table slide_annotations, in insertion order
  sqliteOutput,    \* mirror store, table output, in insertion order
  req,             \* the request of each client and its position
  sent,            \* number of requests received so far
  imageResponse,   \* the response of GET /api/slides/:id/image
  zip,             \* the entries of the archive processSlides has opened
  slideIndex,      \* 1-based position of the loop of processSlides (i + 1)
  relsIndex,       \* 1-based position of the loop over slideRelsEntries
  imagesFound,     \* images of findImagesInPresentation
  slideImages,     \* slideImages of each iteration that has got its images
  location,        \* the page the browser shows: the route that is mounted
  store,           \* usePresentationStore: the state shared by the pages
  queries,         \* status of the three queries of the mounted page
  currentSlideIndex, \* useState of SlideAnnotation
  submitAnnotationsMutation, \* status of the mutation of the mounted review page
  orphanedSubmits, \* submit requests in flight whose page was left
  saveAnnotationsMutation,   \* the save request in flight, if any
  arrivedByEdit,   \* the annotation page was opened by Edit and not paged since
  submitTrigger,   \* what the review page showed when submit was last triggered
  file,            \* useState of Home: a file is selected
  progress,        \* useState of Home
  homeError,       \* useState of Home: error
  uploadMutation,  \* status of the upload mutation of Home
  progressIntervals, \* the intervals of setInterval that are not cleared
  uploads          \* number of upload attempts started

vars == << pc, upload, uploadExists, presentations, slides, sqliteInput, uuids,
           presentationId, outputDirExists, imagesDir, pdfExists, totalSlides,
           success, queue, idx, loopTotal, saveFailures, mirrorDown,
           trace, result, error, response, annotations, sqliteOutput, req,
           sent, imageResponse, zip, slideIndex, relsIndex, imagesFound,
           slideImages, location, store, queries, currentSlideIndex,
           submitAnnotationsMutation, orphanedSubmits, saveAnnotationsMutation,
           arrivedByEdit, submitTrigger, file, progress, homeError,
           uploadMutation, progressIntervals, uploads >>

storeVars == << annotations, sqliteOutput, req, sent >>
\* the variables of the other routes and of the pages of the client
imageVars == << imageResponse >>
extractVars == << zip, slideIndex, relsIndex, imagesFound, slideImages >>
pageVars == << store, queries, currentSlideIndex, submitAnnotationsMutation,
              orphanedSubmits, saveAnnotationsMutation, arrivedByEdit,
              submitTrigger >>
homeVars == << file, progress, homeError, uploadMutation, progressIntervals,
              uploads >>
clientVars == << location, pageVars, homeVars >>
otherVars == << imageVars, extractVars, clientVars >>
fsVars == << uploadExists, outputDirExists, imagesDir, pdfExists >>
dbVars == << presentations, slides, sqliteInput, uuids, saveFailures, mirrorDown >>
loopVars == << queue, idx, loopTotal >>

PresentationName == "deck"

\* the initial state of usePresentationStore, which resetStore restores
EmptyStore ==
  [presentationId |-> 0, presentationName |-> "", slides |-> <<>>,
   currentSlideIndex |-> 0, annotations |-> <<>>]

\* no page with queries is mounted, no save is in flight, submit was not
\* triggered
NoQueries ==
  [presentation |-> "disabled", slides |-> "disabled", annotations |-> "disabled"]
NoSave == [status |-> "idle", slideId |-> 0, tags |-> <<>>]
NoTrigger ==
  [triggered |-> FALSE, isLoading |-> FALSE, inFlight |-> 0, annotated |-> 0]

\* the other routes have answered nothing and no page of the client is open
ImageAtRest == imageResponse = NoImageResponse
ExtractAtRest ==
  /\ zip = <<>>
  /\ slideIndex = 0
  /\ relsIndex = 0
  /\ imagesFound = <<>>
  /\ slideImages = <<>>
PagesAtRest ==
  /\ store = EmptyStore
  /\ queries = NoQueries
  /\ currentSlideIndex = 0
  /\ submitAnnotationsMutation = "idle"
  /\ orphanedSubmits = 0
  /\ saveAnnotationsMutation = NoSave
  /\ arrivedByEdit = FALSE
  /\ submitTrigger = NoTrigger
HomeAtRest ==
  /\ file = FALSE
  /\ progress = 0
  /\ homeError = FALSE
  /\ uploadMutation = "idle"
  /\ progressIntervals = {}
  /\ uploads = 0
ClientAtRest == location = "none" /\ PagesAtRest /\ HomeAtRest
OthersAtRest == ImageAtRest /\ ExtractAtRest /\ ClientAtRest

Ev(op, tier, ok, num, img) ==
  [op |-> op, tier |-> tier, ok |-> ok, num |-> num, img |-> img]

Log(op, tier, ok) == trace' = Append(trace, Ev(op, tier, ok, 0, NoImage))

Init ==
  /\ pc = "createPresentation"
  /\ upload \in Uploads
  /\ uploadExists = TRUE
  /\ presentations = {}
  /\ slides = <<>>
  /\ sqliteInput = <<>>
  /\ uuids = 0
  /\ presentationId = 0
  /\ outputDirExists = FALSE
  /\ imagesDir = <<>>
  /\ pdfExists = FALSE
  /\ totalSlides = 0
  /\ success = FALSE
  /\ queue = <<>>
  /\ idx = 0
  /\ loopTotal = 0
  /\ saveFailures = 0
  /\ mirrorDown \in BOOLEAN
  /\ trace = <<>>
  /\ result = "none"
  /\ error = NoError
  /\ response = NoResponse
  /\ annotations = <<>>
  /\ sqliteOutput = <<>>
  /\ req = [c \in Clients |-> IdleRequest]
  /\ sent = 0
  /\ OthersAtRest

\* ------------------------------------------------------------------------
\* storage
\* ------------------------------------------------------------------------

\* storage.getPresentation(id): the rows of that id
getPresentation(id) == { p \in presentations : p.id = id }

\* the outcomes one storage.saveSlide call can have: the primary insert
\* fails or not, and the mirror write that follows a successful insert
\* fails or not
SaveOutcomes ==
  { o \in [db : BOOLEAN, mirror : BOOLEAN] :
      /\ (~o.db => saveFailures < MaxSaveFailures)
      /\ o.mirror = ~mirrorDown }

\* variant of saveSlide: a row with the same slide_number is replaced
saveSlide_upsertByNumber(tier, slideNumber, image, o) ==
  LET slideId == uuids + 1
      row == [presentation_id |-> presentationId, slide_id |-> slideId,
              slide_number |-> slideNumber, image |-> image]
      same == { k \in 1..Len(slides) : slides[k].slide_number = slideNumber }
  IN  /\ uuids' = uuids + 1
      /\ slides' = IF ~o.db THEN slides
                   ELSE IF same = {} THEN Append(slides, row)
                   ELSE [k \in 1..Len(slides) |->
                           IF k \in same THEN row ELSE slides[k]]
      /\ sqliteInput' =
           IF o.db /\ o.mirror /\ getPresentation(presentationId) # {}
           THEN Append(sqliteInput,
                  [presentation_id |-> presentationId,
                   name |-> (CHOOSE p \in getPresentation(presentationId) : TRUE).name,
                   slide_id |-> slideId, slide_number |-> slideNumber,
                   image |-> image])
           ELSE sqliteInput
      /\ saveFailures' = IF o.db THEN saveFailures ELSE saveFailures + 1
      /\ trace' = Append(trace, Ev("saveSlide", tier, o.db, slideNumber, image))
      /\ UNCHANGED << presentations, mirrorDown >>

\* variant of saveSlide: the mirror is written before the primary insert
saveSlide_mirrorFirst(tier, slideNumber, image, o) ==
  LET slideId == uuids + 1
      row == [presentation_id |-> presentationId, slide_id |-> slideId,
              slide_number |-> slideNumber, image |-> image]
  IN  /\ uuids' = uuids + 1
      /\ slides' = IF o.db THEN Append(slides, row) ELSE slides
      /\ sqliteInput' =
           IF o.mirror /\ getPresentation(presentationId) # {}
           THEN Append(sqliteInput,
                  [presentation_id |-> presentationId,
                   name |-> (CHOOSE p \in getPresentation(presentationId) : TRUE).name,
                   slide_id |-> slideId, slide_number |-> slideNumber,
                   image |-> image])
           ELSE sqliteInput
      /\ saveFailures' = IF o.db THEN saveFailures ELSE saveFailures + 1
      /\ trace' = Append(trace, Ev("saveSlide", tier, o.db, slideNumber, image))
      /\ UNCHANGED << presentations, mirrorDown >>

\* slideId = uuidv4(); await storage.saveSlide(presentationId, slideNumber,
\* slideId, image): the insert into slides throws when o.db is false; the
\* mirror write follows the insert and its failure is swallowed
saveSlide(tier, slideNumber, image, o) ==
  LET slideId == uuids + 1
      row == [presentation_id |-> presentationId, slide_id |-> slideId,
              slide_number |-> slideNumber, image |-> image]
  IN  /\ uuids' = uuids + 1
      /\ slides' = IF o.db THEN Append(slides, row) ELSE slides
      /\ sqliteInput' =
           IF o.db /\ o.mirror /\ getPresentation(presentationId) # {}
           THEN Append(sqliteInput,
                  [presentation_id |-> presentationId,
                   name |-> (CHOOSE p \in getPresentation(presentationId) : TRUE).name,
                   slide_id |-> slideId, slide_number |-> slideNumber,
                   image |-> image])
           ELSE sqliteInput
      /\ saveFailures' = IF o.db THEN saveFailures ELSE saveFailures + 1
      /\ trace' = Append(trace, Ev("saveSlide", tier, o.db, slideNumber, image))
      /\ UNCHANGED << presentations, mirrorDown >>

\* ------------------------------------------------------------------------
\* processPresentation
\* ------------------------------------------------------------------------

\* variant of createPresentation: a failed insert is not noticed and the call
\* goes on with the identifier it generated
createPresentation_failureUnnoticed ==
  /\ pc = "createPresentation"
  /\ \E ok \in BOOLEAN :
       /\ uuids' = uuids + 1
       /\ presentations' =
            IF ok THEN presentations \cup
                         {[id |-> uuids + 1, name |-> PresentationName, submitted |-> FALSE]}
            ELSE presentations
       /\ presentationId' = uuids + 1
       /\ pc' = "mkdir"
       /\ error' = error
       /\ Log("createPresentation", "main", ok)
  /\ UNCHANGED << upload, storeVars, otherVars, response, fsVars, slides, sqliteInput, saveFailures, mirrorDown,
                  totalSlides, success, loopVars, result >>

\* storage.createPresentation(filename); a failed insert goes to the outer catch
createPresentation ==
  /\ pc = "createPresentation"
  /\ \E ok \in BOOLEAN :
       /\ uuids' = uuids + 1
       /\ IF ok
          THEN /\ presentations' = presentations \cup
                    {[id |-> uuids + 1, name |-> PresentationName, submitted |-> FALSE]}
               /\ presentationId' = uuids + 1
               /\ pc' = "mkdir"
          ELSE /\ UNCHANGED << presentations, presentationId >>
               /\ pc' = "catch"
       /\ error' = IF ok THEN error ELSE PresentationInsertError
       /\ Log("createPresentation", "main", ok)
  /\ UNCHANGED << upload, storeVars, otherVars, response, fsVars, slides, sqliteInput, saveFailures, mirrorDown,
                  totalSlides, success, loopVars, result >>

\* fs.mkdirSync(outputDir); a failure goes to the outer catch
makeOutputDir ==
  /\ pc = "mkdir"
  /\ \E ok \in BOOLEAN :
       /\ outputDirExists' = ok
       /\ pc' = IF ok THEN "getSlideCount" ELSE "catch"
       /\ error' = IF ok THEN error ELSE MkdirError
  /\ UNCHANGED << upload, storeVars, otherVars, response, uploadExists, imagesDir, pdfExists, dbVars, presentationId,
                  totalSlides, success, loopVars, trace, result >>

\* totalSlides = await getSlideCount(filePath); success = false
detectSlideCount ==
  /\ pc = "getSlideCount"
  /\ totalSlides' = getSlideCount(upload)
  /\ success' = FALSE
  /\ pc' = "sofficeA"
  /\ UNCHANGED << upload, storeVars, otherVars, response, error, fsVars, dbVars, presentationId, loopVars, trace, result >>

\* the outcomes of soffice --convert-to pdf: the command fails, or it ends
\* and has or has not left a PDF
SofficeOutcomes == {"throw", "nopdf", "pdf"}

\* the outcomes of a rasterizer: the files it wrote and whether it ended
\* without error (a failing run may have written some pages already)
RasterOutcomes(outputs, partial) ==
  [out : outputs, ok : {TRUE}] \cup [out : partial, ok : {FALSE}]

\* first attempt: mkdir images, soffice, rename, existsSync(pdfPath)
sofficeA ==
  /\ pc = "sofficeA"
  /\ \E o \in SofficeOutcomes :
       /\ pdfExists' = (pdfExists \/ o = "pdf")
       /\ Log("soffice", "A", o # "throw" /\ pdfExists')
       /\ pc' = IF o = "throw" THEN "sofficeB"
                ELSE IF pdfExists' THEN "pdftoppmHi" ELSE "scanA"
  /\ UNCHANGED << upload, storeVars, otherVars, response, error, uploadExists, outputDirExists, imagesDir, dbVars,
                  presentationId, totalSlides, success, loopVars, result >>

\* pdftoppm -png -r 150, then the sorted listing of the .png files
pdftoppmHi ==
  /\ pc = "pdftoppmHi"
  /\ \E o \in RasterOutcomes(PngOutputs, PngPartial) :
       /\ Log("pdftoppm150", "hi", o.ok)
       /\ imagesDir' = writeFiles(imagesDir, filesOf(o.out, "pdftoppm150"))
       /\ IF ~o.ok
          THEN /\ pc' = "sofficeB"
               /\ UNCHANGED loopVars
          ELSE LET slideFiles == sortedPngFiles(imagesDir')
               IN  IF Len(slideFiles) > 0
                   THEN /\ queue' = slideFiles
                        /\ idx' = 1
                        /\ pc' = "saveHi"
                        /\ UNCHANGED loopTotal
                   ELSE /\ pc' = "scanA"
                        /\ UNCHANGED loopVars
  /\ UNCHANGED << upload, storeVars, otherVars, response, error, uploadExists, outputDirExists, pdfExists, dbVars,
                  presentationId, totalSlides, success, result >>

\* one iteration of the loop over slideFiles: read, saveSlide, unlink the PNG;
\* a failing saveSlide leaves the first attempt through its catch
saveHiSlide ==
  /\ pc = "saveHi"
  /\ idx <= Len(queue)
  /\ \E o \in SaveOutcomes :
       /\ saveSlide("hi", idx, rasterImage(queue[idx]), o)
       /\ IF o.db
          THEN /\ imagesDir' = unlinkFile(imagesDir, queue[idx])
               /\ idx' = idx + 1
               /\ pc' = "saveHi"
          ELSE /\ pc' = "sofficeB"
               /\ UNCHANGED << imagesDir, idx >>
  /\ UNCHANGED << upload, storeVars, otherVars, response, error, uploadExists, outputDirExists, pdfExists, presentationId,
                  totalSlides, success, queue, loopTotal, result >>

\* after the loop: unlink the PDF, success = true, return presentationId
finishHi ==
  /\ pc = "saveHi"
  /\ idx > Len(queue)
  /\ pdfExists' = FALSE
  /\ success' = TRUE
  /\ result' = "returned"
  /\ pc' = "done"
  /\ UNCHANGED << upload, storeVars, otherVars, response, error, uploadExists, outputDirExists, imagesDir, dbVars,
                  presentationId, totalSlides, loopVars, trace >>

\* rest of the first attempt, reached without a PDF or without any .png: the
\* listing of slide-N.png files and the listing of all .png files are both
\* empty here (ScanFindsNothing), so neither loop runs and success stays false
scanImagesDir ==
  /\ pc = "scanA"
  /\ Len(Filter(imagesDir, isSlidePng)) = 0
  /\ Len(Filter(imagesDir, isPng)) = 0
  /\ pc' = "sofficeB"
  /\ UNCHANGED << upload, storeVars, otherVars, response, error, fsVars, dbVars, presentationId, totalSlides, success,
                  loopVars, trace, result >>

\* variant of afterSofficeB: existsSync(pdfPath) is not consulted
afterSofficeB_noExistsCheck(o, pdf) ==
  IF o = "throw" THEN "processSlides" ELSE "which"

\* where the second attempt goes after its soffice call: to the catch when
\* the command failed, to which pdftoppm when existsSync(pdfPath), else on
afterSofficeB(o, pdf) ==
  IF o = "throw" THEN "processSlides"
  ELSE IF pdf THEN "which" ELSE "processSlides"

\* second attempt, if (!success): soffice again, rename, existsSync(pdfPath)
sofficeB ==
  /\ pc = "sofficeB"
  /\ ~success
  /\ \E o \in SofficeOutcomes :
       /\ pdfExists' = (pdfExists \/ o = "pdf")
       /\ Log("soffice", "B", o # "throw" /\ pdfExists')
       /\ pc' = afterSofficeB(o, pdfExists')
  /\ UNCHANGED << upload, storeVars, otherVars, response, error, uploadExists, outputDirExists, imagesDir, dbVars,
                  presentationId, totalSlides, success, loopVars, result >>

\* variant of whichPdftoppm: the failure of the command is not caught
whichPdftoppm_uncaught ==
  /\ pc = "which"
  /\ \E ok \in BOOLEAN :
       /\ Log("which", "lo", ok)
       /\ pc' = IF ok THEN "pdftoppmLo" ELSE "catch"
  /\ UNCHANGED << upload, storeVars, otherVars, response, error, fsVars, dbVars, presentationId, totalSlides, success,
                  loopVars, result >>

\* which pdftoppm; its failure is caught by catch (pdftoppmError)
whichPdftoppm ==
  /\ pc = "which"
  /\ \E ok \in BOOLEAN :
       /\ Log("which", "lo", ok)
       /\ pc' = IF ok THEN "pdftoppmLo" ELSE "convert"
  /\ UNCHANGED << upload, storeVars, otherVars, response, error, fsVars, dbVars, presentationId, totalSlides, success,
                  loopVars, result >>

\* pdftoppm -png at the default resolution, then the sorted listing; a run
\* that ends without error and leaves no .png falls out of the second attempt
pdftoppmLo ==
  /\ pc = "pdftoppmLo"
  /\ \E o \in RasterOutcomes(PngOutputs, PngPartial) :
       /\ Log("pdftoppm", "lo", o.ok)
       /\ imagesDir' = writeFiles(imagesDir, filesOf(o.out, "pdftoppm"))
       /\ IF ~o.ok
          THEN /\ pc' = "convert"
               /\ UNCHANGED loopVars
          ELSE LET images == sortedPngFiles(imagesDir')
               IN  IF Len(images) > 0
                   THEN /\ queue' = images
                        /\ idx' = 1
                        /\ pc' = "saveLo"
                        /\ UNCHANGED loopTotal
                   ELSE /\ pc' = "processSlides"
                        /\ UNCHANGED loopVars
  /\ UNCHANGED << upload, storeVars, otherVars, response, error, uploadExists, outputDirExists, pdfExists, dbVars,
                  presentationId, totalSlides, success, result >>

\* one iteration of the loop over images: read, saveSlide; a failing
\* saveSlide is caught by catch (pdftoppmError), which runs convert
saveLoSlide ==
  /\ pc = "saveLo"
  /\ idx <= Len(queue)
  /\ \E o \in SaveOutcomes :
       /\ saveSlide("lo", idx, rasterImage(queue[idx]), o)
       /\ IF o.db
          THEN /\ idx' = idx + 1
               /\ pc' = "saveLo"
          ELSE /\ pc' = "convert"
               /\ UNCHANGED idx
  /\ UNCHANGED << upload, storeVars, otherVars, response, error, fsVars, presentationId, totalSlides, success, queue,
                  loopTotal, result >>

\* after the loop: success = true
finishLo ==
  /\ pc = "saveLo"
  /\ idx > Len(queue)
  /\ success' = TRUE
  /\ pc' = "cleanup"
  /\ UNCHANGED << upload, storeVars, otherVars, response, error, fsVars, dbVars, presentationId, totalSlides, loopVars,
                  trace, result >>

\* convert -density 96 ... slide-%d.jpg, then the sorted listing of the
\* slide-N.jpg files; its failure is caught by catch (convertError)
convert ==
  /\ pc = "convert"
  /\ \E o \in RasterOutcomes(JpgOutputs, JpgPartial) :
       /\ Log("convert", "im", o.ok)
       /\ imagesDir' = writeFiles(imagesDir, filesOf(o.out, "convert"))
       /\ IF ~o.ok
          THEN /\ pc' = "processSlides"
               /\ UNCHANGED loopVars
          ELSE LET images == sortedJpgFiles(imagesDir')
               IN  IF Len(images) > 0
                   THEN /\ queue' = images
                        /\ idx' = 1
                        /\ pc' = "saveIm"
                        /\ UNCHANGED loopTotal
                   ELSE /\ pc' = "processSlides"
                        /\ UNCHANGED loopVars
  /\ UNCHANGED << upload, storeVars, otherVars, response, error, uploadExists, outputDirExists, pdfExists, dbVars,
                  presentationId, totalSlides, success, result >>

\* one iteration of the loop over the JPG images; a failing saveSlide is
\* caught by catch (convertError)
saveImSlide ==
  /\ pc = "saveIm"
  /\ idx <= Len(queue)
  /\ \E o \in SaveOutcomes :
       /\ saveSlide("im", idx, rasterImage(queue[idx]), o)
       /\ IF o.db
          THEN /\ idx' = idx + 1
               /\ pc' = "saveIm"
          ELSE /\ pc' = "processSlides"
               /\ UNCHANGED idx
  /\ UNCHANGED << upload, storeVars, otherVars, response, error, fsVars, presentationId, totalSlides, success, queue,
                  loopTotal, result >>

\* after the loop: success = true
finishIm ==
  /\ pc = "saveIm"
  /\ idx > Len(queue)
  /\ success' = TRUE
  /\ pc' = "cleanup"
  /\ UNCHANGED << upload, storeVars, otherVars, response, error, fsVars, dbVars, presentationId, totalSlides, loopVars,
                  trace, result >>

\* ------------------------------------------------------------------------
\* processSlides, createFallbackSlides
\* ------------------------------------------------------------------------

\* variant of actualTotalSlides: the detected count is used alone
actualTotalSlides_detectedOnly(total, detectedSlideCount) == detectedSlideCount

\* const actualTotalSlides = totalSlides || detectedSlideCount
actualTotalSlides(total, detectedSlideCount) ==
  IF total # 0 THEN total ELSE detectedSlideCount

\* if (!success) processSlides(...): extension check, new AdmZip, the sorted
\* slide-XML entries; actualTotalSlides = totalSlides || detectedSlideCount
processSlides ==
  /\ pc = "processSlides"
  /\ ~success
  /\ Log("processSlides", "fallback", TRUE)
  /\ IF ~endsWith(toLowerCase(upload.ext), cPptx) \/ ~upload.readable
     THEN /\ pc' = "createFallbackSlides"
          /\ UNCHANGED loopVars
     ELSE LET slideXMLs == sortedSlideXMLs(upload)
              detectedSlideCount == Len(slideXMLs)
          IN  /\ queue' = slideXMLs
              /\ idx' = 1
              /\ loopTotal' = actualTotalSlides(totalSlides, detectedSlideCount)
              /\ pc' = IF detectedSlideCount = 0 THEN "singlePlaceholder"
                       ELSE "saveRich"
  /\ UNCHANGED << upload, storeVars, otherVars, response, error, fsVars, dbVars, presentationId, totalSlides, success,
                  result >>

\* no slide-XML entry: createAndSavePlaceholder(presentationId, 1,
\* actualTotalSlides > 0 ? actualTotalSlides : 1); return
saveSinglePlaceholder ==
  /\ pc = "singlePlaceholder"
  /\ \E o \in SaveOutcomes :
       /\ saveSlide("single", 1,
            createPlaceholderImage(1, IF loopTotal > 0 THEN loopTotal ELSE 1), o)
       /\ pc' = IF o.db THEN "cleanup" ELSE "createFallbackSlides"
  /\ UNCHANGED << upload, storeVars, otherVars, response, error, fsVars, presentationId, totalSlides, success, loopVars,
                  result >>

\* one iteration of the loop over slideXMLs: an entry that cannot be read
\* throws before anything is saved; otherwise render and saveSlide
saveRichSlide ==
  /\ pc = "saveRich"
  /\ idx <= Len(queue)
  /\ IF queue[idx] \in upload.corrupt
     THEN /\ Log("readAsText", "rich", FALSE)
          /\ pc' = "createFallbackSlides"
          /\ UNCHANGED << dbVars, idx >>
     ELSE \E o \in SaveOutcomes :
            /\ saveSlide("rich", idx,
                 createRichSlideVisualization(idx, loopTotal, queue[idx]), o)
            /\ IF o.db
               THEN /\ idx' = idx + 1
                    /\ pc' = "saveRich"
               ELSE /\ pc' = "createFallbackSlides"
                    /\ UNCHANGED idx
  /\ UNCHANGED << upload, storeVars, otherVars, response, error, fsVars, presentationId, totalSlides, success, queue,
                  loopTotal, result >>

\* processSlides returns after its loop
finishRich ==
  /\ pc = "saveRich"
  /\ idx > Len(queue)
  /\ pc' = "cleanup"
  /\ UNCHANGED << upload, storeVars, otherVars, response, error, fsVars, dbVars, presentationId, totalSlides, success,
                  loopVars, trace, result >>

\* catch of processSlides: createFallbackSlides opens the archive again and
\* counts the slide-XML entries; an archive it cannot open goes to its catch
createFallbackSlides ==
  /\ pc = "createFallbackSlides"
  /\ Log("createFallbackSlides", "fallback", upload.readable)
  /\ idx' = 1
  /\ queue' = <<>>
  /\ IF ~upload.readable
     THEN /\ loopTotal' = DefaultSlideCount
          /\ pc' = "saveUltimate"
     ELSE LET slideEntries == Filter(upload.entries, isSlideXml)
          IN  /\ loopTotal' = IF Len(slideEntries) > 0 THEN Len(slideEntries)
                              ELSE DefaultSlideCount
              /\ pc' = "saveFallback"
  /\ UNCHANGED << upload, storeVars, otherVars, response, error, fsVars, dbVars, presentationId, totalSlides, success,
                  result >>

\* one iteration of for (i = 1; i <= totalSlides; i++)
\* createAndSavePlaceholder(presentationId, i, totalSlides); a failing
\* saveSlide goes to the catch, which starts ten placeholders from 1
saveFallbackSlide ==
  /\ pc = "saveFallback"
  /\ idx <= loopTotal
  /\ \E o \in SaveOutcomes :
       /\ saveSlide("fallback", idx, createPlaceholderImage(idx, loopTotal), o)
       /\ IF o.db
          THEN /\ idx' = idx + 1
               /\ pc' = "saveFallback"
               /\ UNCHANGED loopTotal
          ELSE /\ idx' = 1
               /\ loopTotal' = DefaultSlideCount
               /\ pc' = "saveUltimate"
  /\ UNCHANGED << upload, storeVars, otherVars, response, error, fsVars, presentationId, totalSlides, success, queue,
                  result >>

\* createFallbackSlides returns after its loop
finishFallback ==
  /\ pc = "saveFallback"
  /\ idx > loopTotal
  /\ pc' = "cleanup"
  /\ UNCHANGED << upload, storeVars, otherVars, response, error, fsVars, dbVars, presentationId, totalSlides, success,
                  loopVars, trace, result >>

\* one iteration of for (i = 1; i <= 10; i++)
\* createAndSavePlaceholder(presentationId, i, 10); a failing saveSlide
\* escapes processSlides and reaches the outer catch
saveUltimateSlide ==
  /\ pc = "saveUltimate"
  /\ idx <= DefaultSlideCount
  /\ \E o \in SaveOutcomes :
       /\ saveSlide("ultimate", idx, createPlaceholderImage(idx, DefaultSlideCount), o)
       /\ IF o.db
          THEN /\ idx' = idx + 1
               /\ pc' = "saveUltimate"
          ELSE /\ pc' = "catch"
               /\ UNCHANGED idx
       /\ error' = IF o.db THEN error ELSE SlideInsertError
  /\ UNCHANGED << upload, storeVars, otherVars, response, fsVars, presentationId, totalSlides, success, queue,
                  loopTotal, result >>

\* the ten placeholders are saved
finishUltimate ==
  /\ pc = "saveUltimate"
  /\ idx > DefaultSlideCount
  /\ pc' = "cleanup"
  /\ UNCHANGED << upload, storeVars, otherVars, response, error, fsVars, dbVars, presentationId, totalSlides, success,
                  loopVars, trace, result >>

\* ------------------------------------------------------------------------
\* the two ends of processPresentation
\* ------------------------------------------------------------------------

\* clean up the uploaded file; return presentationId
cleanupAndReturn ==
  /\ pc = "cleanup"
  /\ uploadExists' = FALSE
  /\ result' = "returned"
  /\ pc' = "done"
  /\ UNCHANGED << upload, storeVars, otherVars, response, error, outputDirExists, imagesDir, pdfExists, dbVars,
                  presentationId, totalSlides, success, loopVars, trace >>

\* outer catch: clean up the uploaded file; throw error
catchAndThrow ==
  /\ pc = "catch"
  /\ uploadExists' = FALSE
  /\ result' = "thrown"
  /\ pc' = "done"
  /\ UNCHANGED << upload, storeVars, otherVars, response, error, outputDirExists, imagesDir, pdfExists, dbVars,
                  presentationId, totalSlides, success, loopVars, trace >>

\* variant of responseMessage: the fixed text whatever was thrown
responseMessage_fixedText(e) == "Failed to process presentation"

\* error instanceof Error ? error.message : "Failed to process presentation"
responseMessage(e) ==
  IF e.isError THEN e.message ELSE "Failed to process presentation"

\* POST /api/presentations after processPresentation has ended: 201 with the
\* presentation id, or the catch of the route: 500 with the message
respondUpload ==
  /\ pc = "done"
  /\ response = NoResponse
  /\ response' =
       IF result = "returned"
       THEN [status |-> 201, message |-> "Presentation processed successfully",
             presentation_id |-> presentationId]
       ELSE [status |-> 500, message |-> responseMessage(error),
             presentation_id |-> 0]
  /\ UNCHANGED << pc, upload, storeVars, otherVars, error, fsVars, dbVars, presentationId,
                  totalSlides, success, loopVars, trace, result >>

Next ==
  \/ createPresentation
  \/ makeOutputDir
  \/ detectSlideCount
  \/ sofficeA
  \/ pdftoppmHi
  \/ saveHiSlide
  \/ finishHi
  \/ scanImagesDir
  \/ sofficeB
  \/ whichPdftoppm
  \/ pdftoppmLo
  \/ saveLoSlide
  \/ finishLo
  \/ convert
  \/ saveImSlide
  \/ finishIm
  \/ processSlides
  \/ saveSinglePlaceholder
  \/ saveRichSlide
  \/ finishRich
  \/ createFallbackSlides
  \/ saveFallbackSlide
  \/ finishFallback
  \/ saveUltimateSlide
  \/ finishUltimate
  \/ cleanupAndReturn
  \/ catchAndThrow
  \/ respondUpload

Spec == Init /\ [][Next]_vars

\* ------------------------------------------------------------------------
\* The annotation store: saveAnnotations, getAnnotations, getSlides and
\* submitPresentation, called by the routes for two clients whose requests
\* interleave at their await points, next to an upload
\* ------------------------------------------------------------------------

Tag(key, value) == [key |-> key, value |-> value]

\* the request bodies: arrays of tags, and a body that is not an array
TagsOne == << Tag("topic", "intro") >>
TagsTwo == << Tag("owner", "ann"), Tag("topic", "summary") >>
TagLists == { <<>>, TagsOne, TagsTwo }
ArrayBody(tags) == [isArray |-> TRUE, tags |-> tags]
NoArrayBody == [isArray |-> FALSE, tags |-> <<>>]

\* the slide ids and presentation ids the clients put in their URLs: the two
\* slides of the stored presentation, and the slide and the presentation of
\* the upload, which do not exist before it
StoredPresentationId == 1
MissingSlideId == 5

\* the requests to POST /api/slides/:id/annotations: every body for the first
\* slide, one list for the second slide, and a list and the empty list for a
\* slide that does not exist
SaveRequests ==
  { [slideId |-> 2, body |-> ArrayBody(t)] : t \in TagLists }
    \cup { [slideId |-> 2, body |-> NoArrayBody],
           [slideId |-> 3, body |-> ArrayBody(TagsOne)],
           [slideId |-> MissingSlideId, body |-> ArrayBody(TagsOne)],
           [slideId |-> MissingSlideId, body |-> ArrayBody(<<>>)] }

\* JSON.stringify(tags): the text as its tokens
stringify(tags) ==
  LET F[k \in 0..Len(tags)] ==
        IF k = 0 THEN << "[" >>
        ELSE F[k - 1] \o << "{", tags[k].key, tags[k].value, "}" >>
  IN  F[Len(tags)] \o << "]" >>

\* JSON.parse(text) of such a text
parse(text) ==
  [k \in 1..((Len(text) - 2) \div 4) |-> Tag(text[4 * k - 1], text[4 * k])]

\* variant of getSlide: slides of submitted presentations are not found
getSlide_unsubmittedOnly(slideId) ==
  LET found == { k \in 1..Len(slides) :
                   /\ slides[k].slide_id = slideId
                   /\ \E q \in presentations :
                        q.id = slides[k].presentation_id /\ ~q.submitted }
  IN  IF found = {} THEN NoSlide
      ELSE slides[CHOOSE k \in found : \A j \in found : k <= j]

\* storage.getSlide(slideId): findFirst where slide_id = slideId
getSlide(slideId) ==
  LET found == { k \in 1..Len(slides) : slides[k].slide_id = slideId }
  IN  IF found = {} THEN NoSlide
      ELSE slides[CHOOSE k \in found : \A j \in found : k <= j]

\* storage.getSlides(presentationId): the rows ordered by slide_number
getSlides(pid) ==
  SortByKey(Filter(slides, LAMBDA r : r.presentation_id = pid),
            LAMBDA r : r.slide_number)

\* variant of slideMissing: the lookup result is not tested
slideMissing_never(slide) == FALSE

\* if (!slide) throw new Error("Slide not found")
slideMissing(slide) == slide = NoSlide

\* variant of deleteAnnotations: nothing is deleted
deleteAnnotations_none(rows, slideId) == rows

\* db.delete(slideAnnotations).where(eq(slide_id, slideId))
deleteAnnotations(rows, slideId) ==
  Filter(rows, LAMBDA r : r.slide_id # slideId)

\* the values of db.insert(slideAnnotations)
annotationRow(slideId, slide, tags) ==
  [slide_id |-> slideId, presentation_id |-> slide.presentation_id,
   tags |-> stringify(tags)]

\* variant of sqliteInsertAnnotations: a record is inserted without the
\* select for an existing one
sqliteInsertAnnotations_alwaysInsert(out, pid, slideId, tags) ==
  Append(out, [presentation_id |-> pid, slide_id |-> slideId,
               tags |-> stringify(tags)])

\* sqliteStorage.insertAnnotations: update the record of (presentation, slide)
\* when there is one, insert one otherwise
sqliteInsertAnnotations(out, pid, slideId, tags) ==
  LET tagsJSON == stringify(tags)
      existing == { k \in 1..Len(out) : /\ out[k].presentation_id = pid
                                        /\ out[k].slide_id = slideId }
  IN  IF existing # {}
      THEN [k \in 1..Len(out) |->
              IF k \in existing THEN [out[k] EXCEPT !.tags = tagsJSON] ELSE out[k]]
      ELSE Append(out, [presentation_id |-> pid,
                        slide_id |-> slideId, tags |-> tagsJSON])

\* storage.getAnnotations(presentationId): result[slide_id] = parse(tags) for
\* each row in turn; the object as its <<slide id, tags>> entries in the
\* order the keys were first set, a later row of a slide replacing the value
getAnnotations(pid) ==
  LET rows == Filter(annotations, LAMBDA r : r.presentation_id = pid)
      Put(obj, r) ==
        IF \E i \in 1..Len(obj) : obj[i][1] = r.slide_id
        THEN [i \in 1..Len(obj) |->
                IF obj[i][1] = r.slide_id THEN << r.slide_id, parse(r.tags) >>
                ELSE obj[i]]
        ELSE Append(obj, << r.slide_id, parse(r.tags) >>)
      F[k \in 0..Len(rows)] == IF k = 0 THEN <<>> ELSE Put(F[k - 1], rows[k])
  IN  F[Len(rows)]

\* variant of submitPresentation: the update has no where clause
submitPresentation_everyRow(pid) ==
  { [q EXCEPT !.submitted = TRUE] : q \in presentations }

\* storage.submitPresentation(presentationId): set submitted where id matches
submitPresentation(pid) ==
  { IF q.id = pid THEN [q EXCEPT !.submitted = TRUE] ELSE q :
      q \in presentations }

\* variant of statusAfterMirror: a failed mirror write fails the request
statusAfterMirror_propagated(ok) == IF ok THEN 200 ELSE 500

\* try { sqliteStorage.insertAnnotations(...) } catch { console.error }: the
\* request goes on to res.json whether or not the mirror write failed
statusAfterMirror(ok) == 200

\* the placeholder rows createFallbackSlides stored for an archive with two
\* slide entries whose extension is not .pptx
StoredSlides ==
  << [presentation_id |-> StoredPresentationId, slide_id |-> 2, slide_number |-> 1,
      image |-> createPlaceholderImage(1, 2)],
     [presentation_id |-> StoredPresentationId, slide_id |-> 3, slide_number |-> 2,
      image |-> createPlaceholderImage(2, 2)] >>

\* the same rows as sqliteStorage.insertSlide mirrored them
StoredInput ==
  [k \in 1..Len(StoredSlides) |->
     [presentation_id |-> StoredSlides[k].presentation_id, name |-> PresentationName,
      slide_id |-> StoredSlides[k].slide_id,
      slide_number |-> StoredSlides[k].slide_number,
      image |-> StoredSlides[k].image]]

\* the annotations two finished saveAnnotations calls stored for these slides
StoredAnnotations ==
  << annotationRow(2, StoredSlides[1], TagsOne),
     annotationRow(3, StoredSlides[2], TagsOne) >>

\* the same annotations as sqliteStorage.insertAnnotations mirrored them
StoredOutput ==
  sqliteInsertAnnotations(
    sqliteInsertAnnotations(<<>>, StoredPresentationId, 2, TagsOne),
    StoredPresentationId, 3, TagsOne)

\* the server after one finished upload; the next upload is an archive
\* without slide entries, which gets a single placeholder
StoreInit ==
  /\ pc = "store"
  /\ upload = Upload(cPptx, TRUE, Entries0, 2, {})
  /\ uploadExists = FALSE
  /\ \E submitted \in BOOLEAN :
       presentations = {[id |-> StoredPresentationId, name |-> PresentationName,
                         submitted |-> submitted]}
  /\ slides = StoredSlides
  /\ mirrorDown \in BOOLEAN
  /\ sqliteInput = IF mirrorDown THEN <<>> ELSE StoredInput
  /\ uuids = 3
  /\ presentationId = 0
  /\ outputDirExists = FALSE
  /\ imagesDir = <<>>
  /\ pdfExists = FALSE
  /\ totalSlides = 0
  /\ success = FALSE
  /\ queue = <<>>
  /\ idx = 0
  /\ loopTotal = 0
  /\ saveFailures = 0
  /\ trace = <<>>
  /\ result = "none"
  /\ error = NoError
  /\ response = NoResponse
  /\ annotations \in {<<>>, StoredAnnotations}
  /\ sqliteOutput = IF mirrorDown \/ annotations = <<>> THEN <<>> ELSE StoredOutput
  /\ req = [c \in Clients |-> IdleRequest]
  /\ sent = 0
  /\ OthersAtRest

procData == << upload, fsVars, totalSlides, success, loopVars, result, error,
               response >>
procVars == << pc, procData >>
slideVars == << slides, sqliteInput, uuids, presentationId, saveFailures,
                mirrorDown, trace >>

\* client c may send a request; the first client to send is called c1
Ready(c) ==
  /\ pc = "store"
  /\ req[c].pc \in {"idle", "responded"}
  /\ sent < MaxRequests
  /\ c = "c1" \/ req["c1"].pc # "idle"

\* the request of c becomes r; Touch also tells the other clients that the
\* table slide_annotations was written by someone else
Move(c, r) == req' = [req EXCEPT ![c] = r]
Touch(c, r) ==
  req' = [d \in Clients |-> IF d = c THEN r ELSE [req[d] EXCEPT !.alone = FALSE]]

Respond(r, status, message, body) ==
  [r EXCEPT !.pc = "responded", !.status = status, !.message = message,
            !.body = body]

\* the rows of the other slides, as the table has them
OtherRows(rows, slideId) == Filter(rows, LAMBDA r : r.slide_id # slideId)

\* the delete of a request for slideId leaves the rows of the other slides
OthersKept(rows, slideId) ==
  OtherRows(deleteAnnotations(rows, slideId), slideId) = OtherRows(rows, slideId)

\* the slide exists and its presentation is submitted
SlideSubmitted(slideId) ==
  \E k \in 1..Len(slides) :
     /\ slides[k].slide_id = slideId
     /\ \E p \in presentations : p.id = slides[k].presentation_id /\ p.submitted

\* POST /api/slides/:id/annotations up to the first await of saveAnnotations:
\* a body that is not an array is answered 400; otherwise the delete runs
saveAnnotationsDelete(c) ==
  /\ Ready(c)
  /\ \E q \in SaveRequests :
       LET slideId == q.slideId
           b == q.body
           r == [IdleRequest EXCEPT
                   !.op = "saveAnnotations", !.slideId = slideId,
                   !.tags = b.tags, !.alone = TRUE,
                   !.othersKept = OthersKept(annotations, slideId),
                   !.submittedBefore = SlideSubmitted(slideId)]
       IN  IF ~b.isArray
           THEN /\ Move(c, Respond(r, 400,
                     "Invalid tags format. Expected an array of key-value pairs", <<>>))
                /\ UNCHANGED annotations
           ELSE /\ annotations' = deleteAnnotations(annotations, slideId)
                /\ Touch(c, [r EXCEPT !.pc = "deleted"])
  /\ sent' = sent + 1
  /\ UNCHANGED << procVars, otherVars, slideVars, presentations, sqliteOutput >>

\* variant of saveAnnotationsGetSlide: the slide is looked up for the empty
\* list too
saveAnnotationsGetSlide_alwaysLooksUp(c) ==
  /\ pc = "store"
  /\ req[c].pc = "deleted"
  /\ LET slide == getSlide(req[c].slideId)
     IN  IF slideMissing(slide)
         THEN Move(c, Respond(req[c], 500, responseMessage(SlideNotFound), <<>>))
         ELSE Move(c, [req[c] EXCEPT !.pc = "found", !.slide = slide])
  /\ UNCHANGED << procVars, otherVars, slideVars, presentations, annotations, sqliteOutput,
                  sent >>

\* if (tags.length > 0) slide = await this.getSlide(slideId); a missing slide
\* throws, and the route answers 500 with the message; without tags the
\* route answers 200
saveAnnotationsGetSlide(c) ==
  /\ pc = "store"
  /\ req[c].pc = "deleted"
  /\ IF req[c].tags = <<>>
     THEN Move(c, Respond(req[c], 200, "Annotations saved successfully", req[c].tags))
     ELSE LET slide == getSlide(req[c].slideId)
          IN  IF slideMissing(slide)
              THEN Move(c, Respond(req[c], 500, responseMessage(SlideNotFound), <<>>))
              ELSE Move(c, [req[c] EXCEPT !.pc = "found", !.slide = slide])
  /\ UNCHANGED << procVars, otherVars, slideVars, presentations, annotations, sqliteOutput,
                  sent >>

\* the lookup of the slide throws (the database rejects the query): the route answers 500 with the
\* message, after the delete has been done
saveAnnotationsGetSlideFails(c) ==
  /\ pc = "store"
  /\ req[c].pc = "deleted"
  /\ req[c].tags # <<>>
  /\ saveFailures < MaxSaveFailures
  /\ saveFailures' = saveFailures + 1
  /\ Move(c, Respond(req[c], 500, responseMessage(SlideLookupError), <<>>))
  /\ UNCHANGED << procVars, otherVars, slides, sqliteInput, uuids, presentationId,
                  mirrorDown, trace, presentations, annotations, sqliteOutput,
                  sent >>

\* await db.insert(slideAnnotations).values(...)
saveAnnotationsInsert(c) ==
  /\ pc = "store"
  /\ req[c].pc = "found"
  /\ annotations' = Append(annotations,
        annotationRow(req[c].slideId, req[c].slide, req[c].tags))
  /\ Touch(c, [req[c] EXCEPT
                 !.pc = "inserted",
                 !.othersKept =
                    /\ req[c].othersKept
                    /\ OtherRows(annotations', req[c].slideId)
                         = OtherRows(annotations, req[c].slideId)])
  /\ UNCHANGED << procVars, otherVars, slideVars, presentations, sqliteOutput, sent >>

\* the insert throws: the route answers 500 with the message; the delete
\* has been done and the mirror is not reached
saveAnnotationsInsertFails(c) ==
  /\ pc = "store"
  /\ req[c].pc = "found"
  /\ saveFailures < MaxSaveFailures
  /\ saveFailures' = saveFailures + 1
  /\ Move(c, Respond(req[c], 500, responseMessage(AnnotationInsertError), <<>>))
  /\ UNCHANGED << procVars, otherVars, slides, sqliteInput, uuids, presentationId,
                  mirrorDown, trace, presentations, annotations, sqliteOutput,
                  sent >>

\* the mirror write, whose failure is caught, and res.json of the route
saveAnnotationsMirror(c) ==
  /\ pc = "store"
  /\ req[c].pc = "inserted"
  /\ LET ok == ~mirrorDown
     IN  /\ sqliteOutput' =
              IF ok THEN sqliteInsertAnnotations(sqliteOutput,
                            req[c].slide.presentation_id, req[c].slideId, req[c].tags)
              ELSE sqliteOutput
         /\ Move(c, Respond(req[c], statusAfterMirror(ok),
                    "Annotations saved successfully", req[c].tags))
  /\ UNCHANGED << procVars, otherVars, slideVars, presentations, annotations, sent >>

\* GET /api/presentations/:id/annotations
getAnnotationsRoute(c) ==
  /\ Ready(c)
  /\ LET id == StoredPresentationId
     IN  Move(c, Respond([IdleRequest EXCEPT !.op = "getAnnotations",
                                             !.presentationId = id],
                         200, "none", getAnnotations(id)))
  /\ sent' = sent + 1
  /\ UNCHANGED << procVars, otherVars, slideVars, presentations, annotations, sqliteOutput >>

\* GET /api/presentations/:id/slides
getSlidesRoute(c) ==
  /\ Ready(c)
  /\ LET id == StoredPresentationId
     IN  Move(c, Respond([IdleRequest EXCEPT !.op = "getSlides",
                                             !.presentationId = id],
                         200, "none", getSlides(id)))
  /\ sent' = sent + 1
  /\ UNCHANGED << procVars, otherVars, slideVars, presentations, annotations, sqliteOutput >>

\* POST /api/presentations/:id/submit
submitRoute(c) ==
  /\ Ready(c)
  /\ LET id == StoredPresentationId
     IN  /\ presentations' = submitPresentation(id)
         /\ Move(c, Respond([IdleRequest EXCEPT !.op = "submit",
                                                !.presentationId = id],
                            200, "Annotations submitted successfully", <<>>))
  /\ sent' = sent + 1
  /\ UNCHANGED << procVars, otherVars, slideVars, annotations, sqliteOutput >>

\* the upload of the archive without slide entries: createPresentation
uploadCreatePresentation ==
  /\ pc = "store"
  /\ presentationId = 0
  /\ sent < MaxRequests
  /\ sent' = sent + 1
  /\ uuids' = uuids + 1
  /\ presentations' = presentations \cup
       {[id |-> uuids + 1, name |-> PresentationName, submitted |-> FALSE]}
  /\ presentationId' = uuids + 1
  /\ UNCHANGED << procVars, otherVars, annotations, sqliteOutput, req, slides, sqliteInput,
                  saveFailures, mirrorDown, trace >>

\* the upload of the archive without slide entries: its single placeholder
uploadSavePlaceholder ==
  /\ pc = "store"
  /\ presentationId # 0
  /\ \E o \in SaveOutcomes :
       /\ o.db
       /\ saveSlide("single", 1,
            createPlaceholderImage(1, getSlideCount(upload)), o)
  /\ presentationId' = 0
  /\ UNCHANGED << procVars, otherVars, storeVars >>

StoreNext ==
  \/ \E c \in Clients : saveAnnotationsDelete(c)
  \/ \E c \in Clients : saveAnnotationsGetSlide(c)
  \/ \E c \in Clients : saveAnnotationsGetSlideFails(c)
  \/ \E c \in Clients : saveAnnotationsInsert(c)
  \/ \E c \in Clients : saveAnnotationsInsertFails(c)
  \/ \E c \in Clients : saveAnnotationsMirror(c)
  \/ \E c \in Clients : getAnnotationsRoute(c)
  \/ \E c \in Clients : getSlidesRoute(c)
  \/ \E c \in Clients : submitRoute(c)
  \/ uploadCreatePresentation
  \/ uploadSavePlaceholder

StoreSpec == StoreInit /\ [][StoreNext]_vars

\* ------------------------------------------------------------------------
\* GET /api/slides/:id/image: base64, byte signatures, content type
\* ------------------------------------------------------------------------

\* the characters of the texts below and their UTF-8 bytes
Chars == << "\n", " ", "/", "0", "1", "2", "<", "=", ">", "?", "F", "G", "I",
            "O", "b", "c", "e", "g", "i", "j", "l", "m", "n", "o", "r", "s",
            "t", "v", "x" >>
Codes == << 10, 32, 47, 48, 49, 50, 60, 61, 62, 63, 70, 71, 73,
            79, 98, 99, 101, 103, 105, 106, 108, 109, 110, 111, 114, 115,
            116, 118, 120 >>

Code(c) == Codes[CHOOSE k \in 1..Len(Chars) : Chars[k] = c]

\* Buffer.from(text): the UTF-8 bytes of a text
utf8(text) == [k \in 1..Len(text) |-> Code(text[k])]

\* buffer.toString('utf8'): a byte that is no character of a text decodes to
\* the replacement character
toStringUtf8(bytes) ==
  [k \in 1..Len(bytes) |->
     IF \E j \in 1..Len(Codes) : Codes[j] = bytes[k]
     THEN Chars[CHOOSE j \in 1..Len(Codes) : Codes[j] = bytes[k]]
     ELSE "U+FFFD"]

\* the base64 alphabet, value v at position v + 1
Base64Alphabet ==
  << "A", "B", "C", "D", "E", "F", "G", "H", "I", "J", "K", "L", "M", "N", "O",
     "P", "Q", "R", "S", "T", "U", "V", "W", "X", "Y", "Z",
     "a", "b", "c", "d", "e", "f", "g", "h", "i", "j", "k", "l", "m", "n", "o",
     "p", "q", "r", "s", "t", "u", "v", "w", "x", "y", "z",
     "0", "1", "2", "3", "4", "5", "6", "7", "8", "9", "+", "/" >>

Sextet(c) == (CHOOSE k \in 1..64 : Base64Alphabet[k] = c) - 1

\* buffer.toString('base64'): three bytes give four characters; a last group
\* of one or two bytes is padded with "="
toBase64(bytes) ==
  LET Group(k) ==
        LET b1 == bytes[3 * k - 2]
            has2 == 3 * k - 1 <= Len(bytes)
            has3 == 3 * k <= Len(bytes)
            b2 == IF has2 THEN bytes[3 * k - 1] ELSE 0
            b3 == IF has3 THEN bytes[3 * k] ELSE 0
        IN  << Base64Alphabet[(b1 \div 4) + 1],
               Base64Alphabet[((b1 % 4) * 16 + (b2 \div 16)) + 1],
               IF has2 THEN Base64Alphabet[((b2 % 16) * 4 + (b3 \div 64)) + 1]
               ELSE "=",
               IF has3 THEN Base64Alphabet[(b3 % 64) + 1] ELSE "=" >>
      F[k \in 0..((Len(bytes) + 2) \div 3)] ==
        IF k = 0 THEN <<>> ELSE F[k - 1] \o Group(k)
  IN  F[(Len(bytes) + 2) \div 3]

\* Buffer.from(text, 'base64')
fromBase64(text) ==
  LET Group(k) ==
        LET c1 == Sextet(text[4 * k - 3])
            c2 == Sextet(text[4 * k - 2])
            has3 == text[4 * k - 1] # "="
            has4 == text[4 * k] # "="
            c3 == IF has3 THEN Sextet(text[4 * k - 1]) ELSE 0
            c4 == IF has4 THEN Sextet(text[4 * k]) ELSE 0
        IN  << c1 * 4 + (c2 \div 16) >>
              \o (IF has3 THEN << (c2 % 16) * 16 + (c3 \div 4) >> ELSE <<>>)
              \o (IF has4 THEN << (c3 % 4) * 64 + c4 >> ELSE <<>>)
      F[k \in 0..(Len(text) \div 4)] ==
        IF k = 0 THEN <<>> ELSE F[k - 1] \o Group(k)
  IN  F[Len(text) \div 4]

\* s.startsWith(prefix), s.includes(part)
startsWith(s, prefix) == HasAt(s, 1, prefix)
includes(s, part) == \E i \in 1..Len(s) : HasAt(s, i, part)

cXmlDecl == << "<", "?", "x", "m", "l" >>
cSvgTag == << "<", "s", "v", "g" >>
cForeignObject == << "<", "f", "o", "r", "e", "i", "g", "n", "O", "b", "j", "e", "c", "t" >>
\* 'PHN2Zy' and 'PD94bWw=' of the route
cSvgBase64 == << "P", "H", "N", "2", "Z", "y" >>
cXmlBase64 == << "P", "D", "9", "4", "b", "W", "w", "=" >>

\* the text both SVG generators produce, cut after the opening tag and the
\* slide counter: <?xml version ...?> newline, two blanks, <svg ...> n / t
svgContent(slideNumber, total) ==
  cXmlDecl \o << " ", "v", "e", "r", "s", "i", "o", "n", "?", ">", "\n", " ", " " >>
    \o cSvgTag \o << " ", ">" >>
    \o << Chars[3 + slideNumber], " ", "/", " ", Chars[3 + total] >>

\* what the tools write: pdftoppm -png a PNG file, convert a JPEG file
PngFileBytes == << 137, 80, 78, 71, 13, 10, 26, 10, 0 >>
JpegFileBytes == << 255, 216, 255, 224 >>

\* the bytes behind the text stored in slides.image
imageBytes(image) ==
  IF image.kind \in {"placeholder", "rich"}
  THEN utf8(svgContent(image.number, image.total))
  ELSE IF image.kind = "raster"
       THEN IF image.tool = "convert" THEN JpegFileBytes ELSE PngFileBytes
       ELSE <<>>

\* the column slides.image: the bytes as base64
imageColumn(image) == toBase64(imageBytes(image))

\* the content type the route chooses for the stored text
contentTypeOf(image) ==
  LET imageBuffer == fromBase64(image)
      svgString == toStringUtf8(imageBuffer)
  IN  IF /\ startsWith(image, cSvgBase64) \/ startsWith(image, cXmlBase64)
         /\ includes(svgString, cSvgTag) \/ includes(svgString, cXmlDecl)
      THEN "image/svg+xml"
      ELSE IF Len(imageBuffer) <= 2 THEN "image/png"
           ELSE IF imageBuffer[1] = 255 /\ imageBuffer[2] = 216
                THEN "image/jpeg"
                ELSE IF /\ Len(imageBuffer) > 8
                        /\ imageBuffer[1] = 137 /\ imageBuffer[2] = 80
                        /\ imageBuffer[3] = 78 /\ imageBuffer[4] = 71
                     THEN "image/png"
                     ELSE IF /\ Len(imageBuffer) > 3
                             /\ imageBuffer[1] = 71 /\ imageBuffer[2] = 73
                             /\ imageBuffer[3] = 70
                          THEN "image/gif"
                          ELSE "image/png"

\* the body the route sends: the SVG text, with an XML declaration in front
\* when it has foreignObject content and no declaration, or the buffer
bodyOf(image) ==
  LET imageBuffer == fromBase64(image)
      svgString == toStringUtf8(imageBuffer)
  IN  IF contentTypeOf(image) = "image/svg+xml"
      THEN IF includes(svgString, cForeignObject) /\ ~startsWith(svgString, cXmlDecl)
           THEN utf8(cXmlDecl \o << "?", ">", "\n" >> \o svgString)
           ELSE utf8(svgString)
      ELSE imageBuffer

\* the slide tables a finished upload leaves: one to three rows, each a
\* placeholder, a schematic slide, a PNG of pdftoppm or a JPEG of convert
PipelineImages ==
  { createPlaceholderImage(1, 2),
    createRichSlideVisualization(2, 2, slideXmlName(<<"2">>)),
    rasterImage([name |-> pngName(<<"1">>), tool |-> "pdftoppm150"]),
    rasterImage([name |-> jpgName(<<"0">>), tool |-> "convert"]) }

SlideTables ==
  { [k \in 1..n |->
       [presentation_id |-> StoredPresentationId, slide_id |-> k + 1,
        slide_number |-> k, image |-> im[k]]] :
      n \in 1..3, im \in [1..3 -> PipelineImages] }

ImageInit ==
  /\ pc = "image"
  /\ upload = Upload(cPptx, TRUE, Entries0, 2, {})
  /\ uploadExists = FALSE
  /\ presentations = {[id |-> StoredPresentationId, name |-> PresentationName,
                       submitted |-> FALSE]}
  /\ slides \in SlideTables
  /\ sqliteInput = <<>>
  /\ mirrorDown = TRUE
  /\ uuids = Len(slides) + 1
  /\ presentationId = 0
  /\ outputDirExists = FALSE
  /\ imagesDir = <<>>
  /\ pdfExists = FALSE
  /\ totalSlides = 0
  /\ success = FALSE
  /\ queue = <<>>
  /\ idx = 0
  /\ loopTotal = 0
  /\ saveFailures = 0
  /\ trace = <<>>
  /\ result = "none"
  /\ error = NoError
  /\ response = NoResponse
  /\ annotations = <<>>
  /\ sqliteOutput = <<>>
  /\ req = [c \in Clients |-> IdleRequest]
  /\ sent = 0
  /\ OthersAtRest

serverData == << procData, slideVars, presentations, storeVars >>
serverVars == << pc, serverData >>

\* GET /api/slides/:id/image for a slide of the table or an unknown id
getSlideImage ==
  /\ pc = "image"
  /\ \E slideId \in 2..MissingSlideId :
       LET slide == getSlide(slideId)
           image == imageColumn(slide.image)
       IN  imageResponse' =
             IF slide = NoSlide \/ image = <<>>
             THEN [status |-> 404, slideId |-> slideId, contentType |-> "none",
                   body |-> <<>>]
             ELSE [status |-> 200, slideId |-> slideId,
                   contentType |-> contentTypeOf(image), body |-> bodyOf(image)]
  /\ UNCHANGED << serverVars, extractVars, clientVars >>

ImageNext == getSlideImage

ImageSpec == ImageInit /\ [][ImageNext]_vars

\* ------------------------------------------------------------------------
\* processSlides, step 2: extractImageReferencesFromXML and
\* findImagesInPresentation for each slide of the opened archive
\* ------------------------------------------------------------------------

cUp == << ".", ".", "/" >>
cPptDir == << "p", "p", "t", "/" >>
cMediaDir == cPptDir \o << "m", "e", "d", "i", "a", "/" >>
cRelsDir == cSlidesDir \o << "_", "r", "e", "l", "s", "/" >>
cRelsExt == << ".", "r", "e", "l", "s" >>
cJpeg == << ".", "j", "p", "e", "g" >>
cGif == << ".", "g", "i", "f" >>

imageName(digits) == << "i", "m", "a", "g", "e" >> \o digits \o cPng

\* the Target of a relationship to a file of ppt/media, and one to a file
\* next to the slide
mediaTarget(digits) == cUp \o << "m", "e", "d", "i", "a", "/" >> \o imageName(digits)
localTarget(digits) == imageName(digits)

\* <Relationship Id="..." ... Target="..."/>
Relationship(id, target) == [Id |-> id, Target |-> target]

\* the entries of an archive: a slide with the r:embed identifiers of its
\* XML, the relationship file of a slide with its Relationship elements, and
\* a media file
slideEntry(digits, embeds) ==
  [entryName |-> slideXmlName(digits), embeds |-> embeds, relationships |-> <<>>]
relsEntry(digits, relationships) ==
  [entryName |-> cRelsDir \o cSlide \o digits \o cXml \o cRelsExt,
   embeds |-> <<>>, relationships |-> relationships]
mediaEntry(digits) ==
  [entryName |-> cMediaDir \o imageName(digits), embeds |-> <<>>,
   relationships |-> <<>>]

\* the relationship file that belongs to a slide entry:
\* ppt/slides/_rels/<file name of the slide>.rels
ownRelsName(entryName) ==
  cRelsDir \o SubSeq(entryName, Len(cSlidesDir) + 1, Len(entryName)) \o cRelsExt

\* the archives: two slides, their embed identifiers, the relationship file
\* of each slide (or none), and two media files
EmbedLists == { <<>>, << "rId2" >>, << "rId2", "rId3" >> }
RelationshipLists ==
  { <<>>,
    << Relationship("rId1", localTarget(<<"9">>)),
       Relationship("rId2", mediaTarget(<<"1">>)) >>,
    << Relationship("rId2", mediaTarget(<<"2">>)) >>,
    << Relationship("rId3", mediaTarget(<<"7">>)) >> }

Archive(e1, e2, r1, r2) ==
  << slideEntry(<<"1">>, e1), slideEntry(<<"2">>, e2) >>
    \o (IF r2 = <<>> THEN <<>> ELSE << relsEntry(<<"2">>, r2) >>)
    \o (IF r1 = <<>> THEN <<>> ELSE << relsEntry(<<"1">>, r1) >>)
    \o << mediaEntry(<<"1">>), mediaEntry(<<"2">>) >>

Archives ==
  { Archive(e1, e2, r1, r2) :
      e1 \in EmbedLists, e2 \in { <<>>, << "rId2" >> },
      r1 \in RelationshipLists, r2 \in RelationshipLists }

isSlideEntry(entry) == isSlideXml(entry.entryName)
entryNumber(entry) == xmlNumber(entry.entryName)

\* slideXMLs of processSlides
zipSlideXMLs(z) == SortByKey(Filter(z, isSlideEntry), entryNumber)

\* entryName.startsWith('ppt/slides/_rels/') && entryName.endsWith('.rels')
isSlideRels(entry) ==
  startsWith(entry.entryName, cRelsDir) /\ endsWith(entry.entryName, cRelsExt)

\* entryName.startsWith('ppt/media/') && one of the four image extensions
isMediaImage(entry) ==
  /\ startsWith(entry.entryName, cMediaDir)
  /\ \/ endsWith(entry.entryName, cPng)
     \/ endsWith(entry.entryName, cJpg)
     \/ endsWith(entry.entryName, cJpeg)
     \/ endsWith(entry.entryName, cGif)

\* extractImageReferencesFromXML: the identifiers of r:embed="(rId\d+)"
extractImageReferencesFromXML(slide) == slide.embeds

\* relsContent.match(Id="rId"[^>]*Target="([^"]+)"): the Target of the first
\* Relationship element with that Id, <<>> when there is no match
targetMatch(relsContent, rId) ==
  LET found == { k \in 1..Len(relsContent) : relsContent[k].Id = rId }
  IN  IF found = {} THEN <<>>
      ELSE relsContent[CHOOSE k \in found : \A j \in found : k <= j].Target

\* targetPath.startsWith('../') ? 'ppt/' + targetPath.substring(3)
\*                              : 'ppt/slides/' + targetPath
mediaPath(targetPath) ==
  IF startsWith(targetPath, cUp)
  THEN cPptDir \o SubSeq(targetPath, 4, Len(targetPath))
  ELSE cSlidesDir \o targetPath

\* zip.getEntry(name) finds an entry
hasEntry(z, name) == \E k \in 1..Len(z) : z[k].entryName = name

\* an image of the result: the entry whose data was pushed, and the
\* relationship file through which it was found (<<>> for the media scan)
FoundImage(name, rels) == [entryName |-> name, rels |-> rels]

\* the body of the loop over slideRelsEntries for one relationship file: for
\* each identifier of imageRefs that the file maps to an entry of the
\* archive, push the data of the entry
resolveInRels(z, relsFile, imageRefs) ==
  LET F[k \in 0..Len(imageRefs)] ==
        IF k = 0 THEN <<>>
        ELSE LET targetPath == targetMatch(relsFile.relationships, imageRefs[k])
             IN  IF targetPath # <<>> /\ hasEntry(z, mediaPath(targetPath))
                 THEN Append(F[k - 1],
                             FoundImage(mediaPath(targetPath), relsFile.entryName))
                 ELSE F[k - 1]
  IN  F[Len(imageRefs)]

ExtractInit ==
  /\ pc = "nextSlide"
  /\ upload = Upload(cPptx, TRUE, <<>>, 0, {})
  /\ uploadExists = TRUE
  /\ presentations = {[id |-> StoredPresentationId, name |-> PresentationName,
                       submitted |-> FALSE]}
  /\ slides = <<>>
  /\ sqliteInput = <<>>
  /\ mirrorDown = TRUE
  /\ uuids = 1
  /\ presentationId = StoredPresentationId
  /\ outputDirExists = TRUE
  /\ imagesDir = <<>>
  /\ pdfExists = FALSE
  /\ totalSlides = 2
  /\ success = FALSE
  /\ queue = <<>>
  /\ idx = 0
  /\ loopTotal = 0
  /\ saveFailures = 0
  /\ trace = <<>>
  /\ result = "none"
  /\ error = NoError
  /\ response = NoResponse
  /\ annotations = <<>>
  /\ sqliteOutput = <<>>
  /\ req = [c \in Clients |-> IdleRequest]
  /\ sent = 0
  /\ ImageAtRest
  /\ ClientAtRest
  /\ zip \in Archives
  /\ slideIndex = 1
  /\ relsIndex = 0
  /\ imagesFound = <<>>
  /\ slideImages = <<>>

\* the slide of the running iteration and its imageRefs
currentSlideXML == zipSlideXMLs(zip)[slideIndex]
slideRelsEntries == Filter(zip, isSlideRels)

\* next iteration of the loop of processSlides: read the slide, extract its
\* image references and enter findImagesInPresentation
startSlide ==
  /\ pc = "nextSlide"
  /\ slideIndex <= Len(zipSlideXMLs(zip))
  /\ imagesFound' = <<>>
  /\ relsIndex' = 1
  /\ pc' = "slideRels"
  /\ UNCHANGED << serverData, imageVars, clientVars, zip, slideIndex, slideImages >>

\* one iteration of for (const relsEntry of slideRelsEntries)
resolveRelsEntry ==
  /\ pc = "slideRels"
  /\ relsIndex <= Len(slideRelsEntries)
  /\ imagesFound' = imagesFound \o
        resolveInRels(zip, slideRelsEntries[relsIndex],
                      extractImageReferencesFromXML(currentSlideXML))
  /\ relsIndex' = relsIndex + 1
  /\ UNCHANGED << pc, serverData, imageVars, clientVars, zip, slideIndex, slideImages >>

\* after the loop: if (images.length === 0) every image entry of ppt/media
\* is pushed; return images, which processSlides hands to the visualization
returnImages ==
  /\ pc = "slideRels"
  /\ relsIndex > Len(slideRelsEntries)
  /\ LET mediaEntries == Filter(zip, isMediaImage)
         result0 ==
           IF Len(imagesFound) = 0
           THEN [k \in 1..Len(mediaEntries) |->
                   FoundImage(mediaEntries[k].entryName, <<>>)]
           ELSE imagesFound
     IN  /\ imagesFound' = result0
         /\ slideImages' = Append(slideImages, result0)
  /\ slideIndex' = slideIndex + 1
  /\ pc' = "nextSlide"
  /\ UNCHANGED << serverData, imageVars, clientVars, zip, relsIndex >>

ExtractNext ==
  \/ startSlide
  \/ resolveRelsEntry
  \/ returnImages

ExtractSpec == ExtractInit /\ [][ExtractNext]_vars

\* ------------------------------------------------------------------------
\* The pages of the client: SlideAnnotation, ReviewAnnotations, Success
\* ------------------------------------------------------------------------

\* most submit requests the browser has in flight at a time
MaxSubmits == 2

QueryNames == {"presentation", "slides", "annotations"}

\* usePresentationStore.setPresentationData
setPresentationData(st, presentation, slidesData) ==
  [st EXCEPT !.presentationId = presentation.id,
             !.presentationName = presentation.name,
             !.slides = slidesData]

\* usePresentationStore.setAnnotations: { ...state.annotations, [slideId]: tags }
\* as the <<slide id, tags>> entries of the object
setAnnotations(st, slideId, tags) ==
  LET a == st.annotations
  IN  [st EXCEPT !.annotations =
         IF \E i \in 1..Len(a) : a[i][1] = slideId
         THEN [i \in 1..Len(a) |->
                 IF a[i][1] = slideId THEN << slideId, tags >> ELSE a[i]]
         ELSE Append(a, << slideId, tags >>)]

\* Object.entries(allAnnotations).forEach(([slideId, tags]) => setAnnotations(slideId, tags))
loadAnnotations(st, allAnnotations) ==
  LET F[k \in 0..Len(allAnnotations)] ==
        IF k = 0 THEN st
        ELSE setAnnotations(F[k - 1], allAnnotations[k][1], allAnnotations[k][2])
  IN  F[Len(allAnnotations)]

\* usePresentationStore.resetStore
resetStore(st) == EmptyStore

\* annotations[slide.slide_id] || []
annotationsOf(st, slideId) ==
  LET a == st.annotations
  IN  IF \E i \in 1..Len(a) : a[i][1] = slideId
      THEN a[CHOOSE i \in 1..Len(a) : a[i][1] = slideId][2]
      ELSE <<>>

\* slides.filter(slide => (annotations[slide.slide_id] || []).length > 0).length
slidesWithAnnotations(st) ==
  Cardinality({ k \in 1..Len(st.slides) :
                  Len(annotationsOf(st, st.slides[k].slide_id)) > 0 })

\* the queries of SlideAnnotation are enabled whenever the page is mounted
annotateQueries ==
  [presentation |-> "loading", slides |-> "loading", annotations |-> "loading"]

\* the queries of ReviewAnnotations are enabled when the store has no slides
\* (presentation, slides) and no annotations (annotations)
reviewQueries(st) ==
  [presentation |-> IF Len(st.slides) = 0 THEN "loading" ELSE "disabled",
   slides |-> IF Len(st.slides) = 0 THEN "loading" ELSE "disabled",
   annotations |-> IF Len(st.annotations) = 0 THEN "loading" ELSE "disabled"]

\* presentationQuery.error || slidesQuery.error || annotationsQuery.error:
\* the page renders the alert only
hasError(q) == \E n \in QueryNames : q[n] = "error"

\* isLoading of SlideAnnotation
annotateIsLoading(q) == \E n \in QueryNames : q[n] = "loading"

\* isLoading of ReviewAnnotations
reviewIsLoading(q, st) ==
  \/ \E n \in QueryNames : q[n] = "loading"
  \/ Len(st.slides) = 0 /\ q.presentation # "error" /\ q.slides # "error"

\* disabled={isLoading || submitAnnotationsMutation.isPending || slidesWithAnnotations === 0}
submitDisabled(q, st, m) ==
  \/ reviewIsLoading(q, st)
  \/ m = "pending"
  \/ slidesWithAnnotations(st) = 0

\* the submit requests in flight: the one of the mounted review page and
\* those of review pages that were left
submitsInFlight ==
  orphanedSubmits + (IF submitAnnotationsMutation = "pending" THEN 1 ELSE 0)

\* the effects "Load presentation data once fetched" and "Load annotations
\* once fetched" after query n got its data and the statuses became q
queryEffects(n, q, st) ==
  LET pid == StoredPresentationId
      presentation == CHOOSE p \in presentations : p.id = pid
      st1 == IF /\ n \in {"presentation", "slides"}
                /\ q.presentation = "success" /\ q.slides = "success"
             THEN setPresentationData(st, presentation, getSlides(pid))
             ELSE st
  IN  IF n = "annotations" THEN loadAnnotations(st1, getAnnotations(pid))
      ELSE st1

\* the browser opens /annotate/:id after an upload, or /review/:id, with a
\* new store; the server has the stored presentation
ReviewInit ==
  /\ pc = "client"
  /\ upload = Upload(cPptx, TRUE, Entries0, 2, {})
  /\ uploadExists = FALSE
  /\ presentations = {[id |-> StoredPresentationId, name |-> PresentationName,
                       submitted |-> FALSE]}
  /\ slides = StoredSlides
  /\ sqliteInput = <<>>
  /\ mirrorDown = TRUE
  /\ uuids = 3
  /\ presentationId = 0
  /\ outputDirExists = FALSE
  /\ imagesDir = <<>>
  /\ pdfExists = FALSE
  /\ totalSlides = 0
  /\ success = FALSE
  /\ queue = <<>>
  /\ idx = 0
  /\ loopTotal = 0
  /\ saveFailures = 0
  /\ trace = <<>>
  /\ result = "none"
  /\ error = NoError
  /\ response = NoResponse
  /\ annotations \in {<<>>, StoredAnnotations}
  /\ sqliteOutput = <<>>
  /\ req = [c \in Clients |-> IdleRequest]
  /\ sent = 0
  /\ ImageAtRest
  /\ ExtractAtRest
  /\ HomeAtRest
  /\ location \in {"annotate", "review"}
  /\ store = EmptyStore
  /\ queries = IF location = "annotate" THEN annotateQueries
               ELSE reviewQueries(EmptyStore)
  /\ currentSlideIndex = 0
  /\ submitAnnotationsMutation = "idle"
  /\ orphanedSubmits = 0
  /\ saveAnnotationsMutation = NoSave
  /\ arrivedByEdit = FALSE
  /\ submitTrigger = NoTrigger

\* what no action of the pages changes
pageFrame == << procVars, slideVars, sqliteOutput, req, sent, imageVars,
               extractVars, homeVars >>

\* the page at location is unmounted: a pending submit request stays in
\* flight without a mutation that observes it
orphansAfterLeaving ==
  IF location = "review" THEN submitsInFlight ELSE orphanedSubmits

\* a query of the mounted page gets its response; the effects copy the data
\* into the store
queryResolves(n, ok) ==
  /\ pc = "client"
  /\ location \in {"annotate", "review"}
  /\ queries[n] = "loading"
  /\ queries' = [queries EXCEPT ![n] = IF ok THEN "success" ELSE "error"]
  /\ store' = IF ok THEN queryEffects(n, queries', store) ELSE store
  /\ UNCHANGED << pageFrame, presentations, annotations, location,
                  currentSlideIndex, submitAnnotationsMutation,
                  orphanedSubmits, saveAnnotationsMutation, arrivedByEdit,
                  submitTrigger >>

\* the Previous button of SlideAnnotation
handlePreviousSlide ==
  /\ pc = "client"
  /\ location = "annotate"
  /\ ~hasError(queries)
  /\ ~(currentSlideIndex = 0 \/ annotateIsLoading(queries))
  /\ currentSlideIndex' =
       IF currentSlideIndex > 0 THEN currentSlideIndex - 1 ELSE currentSlideIndex
  /\ arrivedByEdit' = FALSE
  /\ UNCHANGED << pageFrame, presentations, annotations, location, store,
                  queries, submitAnnotationsMutation, orphanedSubmits,
                  saveAnnotationsMutation, submitTrigger >>

\* the Next button of SlideAnnotation
handleNextSlide ==
  /\ pc = "client"
  /\ location = "annotate"
  /\ ~hasError(queries)
  /\ ~(currentSlideIndex = Len(store.slides) - 1 \/ annotateIsLoading(queries))
  /\ currentSlideIndex' =
       IF currentSlideIndex < Len(store.slides) - 1 THEN currentSlideIndex + 1
       ELSE currentSlideIndex
  /\ arrivedByEdit' = FALSE
  /\ UNCHANGED << pageFrame, presentations, annotations, location, store,
                  queries, submitAnnotationsMutation, orphanedSubmits,
                  saveAnnotationsMutation, submitTrigger >>

\* onSave of the annotation form of the current slide: the save request
\* is sent
handleSaveAnnotations(tags) ==
  /\ pc = "client"
  /\ location = "annotate"
  /\ ~hasError(queries)
  /\ ~annotateIsLoading(queries)
  /\ currentSlideIndex < Len(store.slides)
  /\ saveAnnotationsMutation.status # "pending"
  /\ saveAnnotationsMutation' =
       [status |-> "pending",
        slideId |-> store.slides[currentSlideIndex + 1].slide_id,
        tags |-> tags]
  /\ UNCHANGED << pageFrame, presentations, annotations, location, store,
                  queries, currentSlideIndex, submitAnnotationsMutation,
                  orphanedSubmits, arrivedByEdit, submitTrigger >>

\* the save request is answered: the server has replaced the annotations of
\* the slide and onSuccess copies them into the store, or the request failed
saveAnnotationsResolves(ok) ==
  /\ pc = "client"
  /\ saveAnnotationsMutation.status = "pending"
  /\ LET s == saveAnnotationsMutation.slideId
         tags == saveAnnotationsMutation.tags
     IN  IF ok
         THEN /\ annotations' =
                   IF tags = <<>> THEN deleteAnnotations(annotations, s)
                   ELSE Append(deleteAnnotations(annotations, s),
                               annotationRow(s, getSlide(s), tags))
              /\ store' = setAnnotations(store, s, tags)
         ELSE UNCHANGED << annotations, store >>
  /\ saveAnnotationsMutation' = NoSave
  /\ UNCHANGED << pageFrame, presentations, location, queries,
                  currentSlideIndex, submitAnnotationsMutation,
                  orphanedSubmits, arrivedByEdit, submitTrigger >>

\* Review All Annotations: navigate(`/review/${presentationId}`)
handleGoToReview ==
  /\ pc = "client"
  /\ location = "annotate"
  /\ ~hasError(queries)
  /\ location' = "review"
  /\ queries' = reviewQueries(store)
  /\ currentSlideIndex' = 0
  /\ arrivedByEdit' = FALSE
  /\ UNCHANGED << pageFrame, presentations, annotations, store,
                  submitAnnotationsMutation, orphanedSubmits,
                  saveAnnotationsMutation, submitTrigger >>

\* Cancel: navigate("/")
handleBackToUpload ==
  /\ pc = "client"
  /\ location = "annotate"
  /\ ~hasError(queries)
  /\ location' = "home"
  /\ queries' = NoQueries
  /\ currentSlideIndex' = 0
  /\ arrivedByEdit' = FALSE
  /\ UNCHANGED << pageFrame, presentations, annotations, store,
                  submitAnnotationsMutation, orphanedSubmits,
                  saveAnnotationsMutation, submitTrigger >>

\* Edit of the slide at slideIndex: navigate(`/annotate/${presentationId}`)
\* and setState({ currentSlideIndex: slideIndex }); SlideAnnotation is
\* mounted with useState(0)
handleEditSlide(index) ==
  /\ pc = "client"
  /\ location = "review"
  /\ ~hasError(queries)
  /\ ~reviewIsLoading(queries, store)
  /\ index \in 0..(Len(store.slides) - 1)
  /\ location' = "annotate"
  /\ store' = [store EXCEPT !.currentSlideIndex = index]
  /\ currentSlideIndex' = 0
  /\ queries' = annotateQueries
  /\ orphanedSubmits' = orphansAfterLeaving
  /\ submitAnnotationsMutation' = "idle"
  /\ arrivedByEdit' = TRUE
  /\ UNCHANGED << pageFrame, presentations, annotations,
                  saveAnnotationsMutation, submitTrigger >>

\* Back to Annotation: navigate(`/annotate/${presentationId}`)
handleBackToAnnotation ==
  /\ pc = "client"
  /\ location = "review"
  /\ ~hasError(queries)
  /\ location' = "annotate"
  /\ currentSlideIndex' = 0
  /\ queries' = annotateQueries
  /\ orphanedSubmits' = orphansAfterLeaving
  /\ submitAnnotationsMutation' = "idle"
  /\ arrivedByEdit' = FALSE
  /\ UNCHANGED << pageFrame, presentations, annotations, store,
                  saveAnnotationsMutation, submitTrigger >>

\* Submit All Annotations, which the button allows when it is not disabled:
\* submitAnnotationsMutation.mutate()
handleSubmitAll ==
  /\ pc = "client"
  /\ location = "review"
  /\ ~hasError(queries)
  /\ ~submitDisabled(queries, store, submitAnnotationsMutation)
  /\ submitsInFlight < MaxSubmits
  /\ submitTrigger' =
       [triggered |-> TRUE,
        isLoading |-> reviewIsLoading(queries, store),
        inFlight |-> submitsInFlight,
        annotated |-> slidesWithAnnotations(store)]
  /\ submitAnnotationsMutation' = "pending"
  /\ UNCHANGED << pageFrame, presentations, annotations, location, store,
                  queries, currentSlideIndex, orphanedSubmits,
                  saveAnnotationsMutation, arrivedByEdit >>

\* the submit request of the mounted review page is answered: onSuccess
\* navigates to /success, onError shows a toast
submitResolves(ok) ==
  /\ pc = "client"
  /\ location = "review"
  /\ submitAnnotationsMutation = "pending"
  /\ IF ok
     THEN /\ presentations' = submitPresentation(StoredPresentationId)
          /\ location' = "success"
          /\ queries' = NoQueries
          /\ submitAnnotationsMutation' = "idle"
     ELSE /\ submitAnnotationsMutation' = "error"
          /\ UNCHANGED << presentations, location, queries >>
  /\ UNCHANGED << pageFrame, annotations, store, currentSlideIndex,
                  orphanedSubmits, saveAnnotationsMutation, arrivedByEdit,
                  submitTrigger >>

\* a submit request of a review page that was left is answered: the
\* callbacks of the mutation run all the same, and onSuccess navigates to
\* /success from whatever page is shown
orphanedSubmitResolves(ok) ==
  /\ pc = "client"
  /\ orphanedSubmits > 0
  /\ IF ok
     THEN /\ presentations' = submitPresentation(StoredPresentationId)
          /\ location' = "success"
          /\ queries' = NoQueries
          /\ currentSlideIndex' = 0
          /\ arrivedByEdit' = FALSE
          /\ orphanedSubmits' = orphansAfterLeaving - 1
          /\ submitAnnotationsMutation' = "idle"
     ELSE /\ orphanedSubmits' = orphanedSubmits - 1
          /\ UNCHANGED << presentations, location, queries, currentSlideIndex,
                          arrivedByEdit, submitAnnotationsMutation >>
  /\ UNCHANGED << pageFrame, annotations, store, saveAnnotationsMutation,
                  submitTrigger >>

\* Annotate Another Presentation on the success page: resetStore() and
\* navigate("/")
handleStartNew ==
  /\ pc = "client"
  /\ location = "success"
  /\ store' = resetStore(store)
  /\ location' = "home"
  /\ UNCHANGED << pageFrame, presentations, annotations, queries,
                  currentSlideIndex, submitAnnotationsMutation,
                  orphanedSubmits, saveAnnotationsMutation, arrivedByEdit,
                  submitTrigger >>

ReviewNext ==
  \/ \E n \in QueryNames, ok \in BOOLEAN : queryResolves(n, ok)
  \/ handlePreviousSlide
  \/ handleNextSlide
  \/ \E tags \in TagLists : handleSaveAnnotations(tags)
  \/ \E ok \in BOOLEAN : saveAnnotationsResolves(ok)
  \/ handleGoToReview
  \/ handleBackToUpload
  \/ \E index \in 0..(Len(StoredSlides) - 1) : handleEditSlide(index)
  \/ handleBackToAnnotation
  \/ handleSubmitAll
  \/ \E ok \in BOOLEAN : submitResolves(ok)
  \/ \E ok \in BOOLEAN : orphanedSubmitResolves(ok)
  \/ handleStartNew

ReviewSpec == ReviewInit /\ [][ReviewNext]_vars

\* ------------------------------------------------------------------------
\* The upload page: Home
\* ------------------------------------------------------------------------

\* most upload attempts of a visit of the page
MaxUploads == 2

\* the step of the simulated progress and the value it stops at
ProgressStep == 10
ProgressCap == 90
ProgressDone == 100

\* the outcomes of choosing a file: the dialog was cancelled, the file has
\* another type or is too large, the file is accepted
FileChoices == {"none", "invalid", "valid"}

\* the browser shows the upload page and nothing is selected
HomeInit ==
  /\ pc = "client"
  /\ upload = Upload(cPptx, TRUE, Entries0, 2, {})
  /\ uploadExists = FALSE
  /\ presentations = {}
  /\ slides = <<>>
  /\ sqliteInput = <<>>
  /\ mirrorDown = TRUE
  /\ uuids = 0
  /\ presentationId = 0
  /\ outputDirExists = FALSE
  /\ imagesDir = <<>>
  /\ pdfExists = FALSE
  /\ totalSlides = 0
  /\ success = FALSE
  /\ queue = <<>>
  /\ idx = 0
  /\ loopTotal = 0
  /\ saveFailures = 0
  /\ trace = <<>>
  /\ result = "none"
  /\ error = NoError
  /\ response = NoResponse
  /\ annotations = <<>>
  /\ sqliteOutput = <<>>
  /\ req = [c \in Clients |-> IdleRequest]
  /\ sent = 0
  /\ ImageAtRest
  /\ ExtractAtRest
  /\ PagesAtRest
  /\ location = "home"
  /\ HomeAtRest

\* what no action of the upload page changes
homeFrame == << serverVars, imageVars, extractVars, pageVars >>

\* onChange of the file input: setError(null), then the validation
handleFileChange(choice) ==
  /\ pc = "client"
  /\ location = "home"
  /\ homeError' = (choice = "invalid")
  /\ file' = IF choice = "valid" THEN TRUE ELSE file
  /\ UNCHANGED << homeFrame, location, progress, uploadMutation,
                  progressIntervals, uploads >>

\* the remove button of the selected file
handleRemoveFile ==
  /\ pc = "client"
  /\ location = "home"
  /\ file
  /\ file' = FALSE
  /\ progress' = 0
  /\ homeError' = FALSE
  /\ UNCHANGED << homeFrame, location, uploadMutation, progressIntervals,
                  uploads >>

\* Upload and Process, shown when a file is selected and no upload is
\* pending: setProgress(0), mutate; mutationFn starts its interval
handleUpload ==
  /\ pc = "client"
  /\ location = "home"
  /\ file
  /\ uploadMutation # "pending"
  /\ uploads < MaxUploads
  /\ uploads' = uploads + 1
  /\ progress' = 0
  /\ uploadMutation' = "pending"
  /\ progressIntervals' = progressIntervals \cup {uploads + 1}
  /\ UNCHANGED << homeFrame, location, file, homeError >>

\* the callback of the interval t: at 90 or more it clears its interval and
\* sets 90, below it adds 10
progressTick(t) ==
  /\ pc = "client"
  /\ location = "home"
  /\ t \in progressIntervals
  /\ IF progress >= ProgressCap
     THEN /\ progressIntervals' = progressIntervals \ {t}
          /\ progress' = ProgressCap
     ELSE /\ progress' = progress + ProgressStep
          /\ UNCHANGED progressIntervals
  /\ UNCHANGED << homeFrame, location, file, homeError, uploadMutation,
                  uploads >>

\* apiRequest of the pending upload returns or throws: after it returned,
\* clearInterval(progressInterval) and setProgress(100); after it threw,
\* onError: setError, setProgress(0), setFile(null)
uploadResolves(ok) ==
  /\ pc = "client"
  /\ location = "home"
  /\ uploadMutation = "pending"
  /\ IF ok
     THEN /\ progressIntervals' = progressIntervals \ {uploads}
          /\ progress' = ProgressDone
          /\ uploadMutation' = "success"
          /\ UNCHANGED << file, homeError >>
     ELSE /\ homeError' = TRUE
          /\ progress' = 0
          /\ file' = FALSE
          /\ uploadMutation' = "error"
          /\ UNCHANGED progressIntervals
  /\ UNCHANGED << homeFrame, location, uploads >>

\* the timeout of onSuccess: navigate(`/annotate/${data.presentation_id}`)
navigateToAnnotate ==
  /\ pc = "client"
  /\ location = "home"
  /\ uploadMutation = "success"
  /\ location' = "annotate"
  /\ UNCHANGED << homeFrame, homeVars >>

HomeNext ==
  \/ \E choice \in FileChoices : handleFileChange(choice)
  \/ handleRemoveFile
  \/ handleUpload
  \/ \E t \in 1..MaxUploads : progressTick(t)
  \/ \E ok \in BOOLEAN : uploadResolves(ok)
  \/ navigateToAnnotate

HomeSpec == HomeInit /\ [][HomeNext]_vars

\* ------------------------------------------------------------------------
\* Facts the model relies on
\* ------------------------------------------------------------------------

\* at the rest of the first attempt the images directory holds no .png file
ScanFindsNothing ==
  pc = "scanA" => /\ Filter(imagesDir, isSlidePng) = <<>>
                  /\ Filter(imagesDir, isPng) = <<>>

TypeOK ==
  /\ result \in {"none", "returned", "thrown"}
  /\ uploadExists \in BOOLEAN
  /\ success \in BOOLEAN
  /\ saveFailures \in 0..MaxSaveFailures
  /\ mirrorDown \in BOOLEAN
  /\ \A k \in 1..Len(slides) : slides[k].slide_number >= 1
  /\ sent \in 0..MaxRequests
  /\ response.status \in {0, 201, 500}
  /\ \A c \in Clients :
       /\ req[c].pc \in {"idle", "deleted", "found", "inserted", "responded"}
       /\ req[c].status \in {0, 200, 400, 500}
  /\ \A k \in 1..Len(annotations) : annotations[k].tags = stringify(parse(annotations[k].tags))

\* ------------------------------------------------------------------------
\* Vocabulary of the claims
\* ------------------------------------------------------------------------

RasterTiers == {"hi", "lo", "im"}
RasterTools == {"pdftoppm150", "which", "pdftoppm", "convert"}

\* positions of the trace
Calls == 1..Len(trace)
CallsOf(op) == { k \in Calls : trace[k].op = op }
\* the saveSlide calls that inserted a row
Persisted == { k \in Calls : trace[k].op = "saveSlide" /\ trace[k].ok }

SlideXmlEntries(u) == Filter(u.entries, isSlideXml)
IsPptxArchive(u) == endsWith(toLowerCase(u.ext), cPptx) /\ u.readable

\* no conversion strategy produced an image: no raster loop made a call
ConvertersFailed == \A k \in CallsOf("saveSlide") : trace[k].tier \notin RasterTiers

\* the rows of the presentation of this call
RowsOf(id) == { k \in 1..Len(slides) : slides[k].presentation_id = id }

\* ------------------------------------------------------------------------
\* C1
\* ------------------------------------------------------------------------

\* C1: on every exit path of processPresentation, returning or throwing, the
\* temporary upload file has been deleted when the call ends
C1_UploadDeletedOnEveryExit == pc = "done" => ~uploadExists

\* ------------------------------------------------------------------------
\* C2
\* ------------------------------------------------------------------------

\* C2: whenever processPresentation returns a presentation id, the persisted
\* slide numbers of that presentation are exactly 1..K, each once, K >= 1
C2_SlideNumbersDense ==
  result = "returned" =>
    LET rows == RowsOf(presentationId)
        K == Cardinality(rows)
    IN  /\ K >= 1
        /\ \A n \in 1..K :
             Cardinality({ k \in rows : slides[k].slide_number = n }) = 1

\* ------------------------------------------------------------------------
\* C3
\* ------------------------------------------------------------------------

\* C3: when processSlides hits an exception after it persisted k >= 1 rendered
\* slides of an archive with N slide-XML entries (and createFallbackSlides
\* then runs to its end), the presentation holds exactly N placeholders
\* numbered 1..N and none of the rendered slides
C3_PartialProgressDiscarded ==
  LET N == Len(SlideXmlEntries(upload))
  IN  ( /\ pc = "done"
        /\ result = "returned"
        /\ saveFailures = 0
        /\ ConvertersFailed
        /\ CallsOf("createFallbackSlides") # {}
        /\ \E k \in Persisted : trace[k].tier = "rich" )
      => /\ Len(slides) = N
         /\ \A k \in 1..Len(slides) : slides[k].image.kind = "placeholder"
         /\ \A n \in 1..N : \E k \in 1..Len(slides) : slides[k].slide_number = n

\* ------------------------------------------------------------------------
\* C4
\* ------------------------------------------------------------------------

\* C4: once a conversion strategy has persisted a slide, no other strategy and
\* not the archive fallback persists a slide of that upload: all persisted
\* slides come from one tier
C4_OneTierPersists ==
  \A i \in Persisted : \A j \in Persisted :
     trace[i].tier \in RasterTiers => trace[j].tier = trace[i].tier

\* ------------------------------------------------------------------------
\* C5
\* ------------------------------------------------------------------------

\* C5: when every PDF export of the run succeeded and processSlides is
\* nevertheless invoked, the three rasterizations were attempted before it in
\* the order pdftoppm -r 150, pdftoppm, convert; so a pdftoppm run that ends
\* without error and yields no image is followed by the convert attempt
C5_AllRasterizersBeforeFallback ==
  \A p \in CallsOf("processSlides") :
     ( /\ \E e \in CallsOf("soffice") : e < p
       /\ \A e \in CallsOf("soffice") : trace[e].ok )
     => \E a \in CallsOf("pdftoppm150") :
          \E b \in CallsOf("which") \cup CallsOf("pdftoppm") :
            \E c \in CallsOf("convert") : a < b /\ b < c /\ c < p

\* ------------------------------------------------------------------------
\* C6
\* ------------------------------------------------------------------------

FallbackRan ==
  /\ pc = "done"
  /\ IsPptxArchive(upload)
  /\ ConvertersFailed
  /\ CallsOf("processSlides") # {}

\* C7: for a readable .pptx with N >= 1 slide-XML entries, all of them
\* readable, when every converter fails and no persist call fails, exactly N
\* slides are persisted, numbered 1..N by loop position, in ascending order
\* of the numeric suffix of their slide-XML entry
C7_FallbackRendersEveryEntry ==
  LET xmls == SlideXmlEntries(upload)
      N == Len(xmls)
  IN  (FallbackRan /\ N >= 1 /\ upload.corrupt = {} /\ saveFailures = 0)
      => /\ Len(slides) = N
         /\ \A k \in 1..N : /\ slides[k].slide_number = k
                            /\ slides[k].image.kind = "rich"
                            /\ slides[k].image.number = k
         /\ { slides[k].image.name : k \in 1..N } = { xmls[k] : k \in 1..N }
         /\ \A i \in 1..N : \A j \in 1..N :
              i < j => xmlNumber(slides[i].image.name) < xmlNumber(slides[j].image.name)

\* the three entries slide7, slide1, slide3 were rendered: the sequence
\* numbers differ from the suffixes
C7_Witness ==
  /\ FallbackRan
  /\ upload.corrupt = {}
  /\ saveFailures = 0
  /\ Len(slides) = 3
  /\ xmlNumber(slides[3].image.name) = 7

\* ------------------------------------------------------------------------
\* C8
\* ------------------------------------------------------------------------

OnePlaceholderOfCount ==
  LET count == getSlideCount(upload)
  IN  /\ Len(slides) = 1
      /\ slides[1].slide_number = 1
      /\ slides[1].image =
           createPlaceholderImage(1, IF count > 1 THEN count ELSE 1)

RasterLoopDone == pc \in {"saveHi", "saveLo", "saveIm"} /\ idx > Len(queue)

\* the rows the strategy that just finished has persisted
LoopRows == SubSeq(slides, Len(slides) - Len(queue) + 1, Len(slides))

\* C9: in a successful raster strategy the sequence number of an image is its
\* 1-based rank in the list sorted ascending by the number of its file name;
\* for slide-01.png .. slide-10.png it is the numeric suffix
C9_SequenceNumberIsRank ==
  RasterLoopDone =>
    LET n == Len(queue)
        rows == LoopRows
        names == { rows[k].image.name : k \in 1..n }
    IN  /\ Len(slides) >= n
        /\ Len(rows) = n
        /\ \A k \in 1..n : rows[k].slide_number = k /\ rows[k].image.kind = "raster"
        /\ names = { queue[k].name : k \in 1..n }
        /\ \A i \in 1..n : \A j \in 1..n :
             rows[i].slide_number < rows[j].slide_number
               => getNumber(rows[i].image.name) <= getNumber(rows[j].image.name)
        /\ names = { Png10[k] : k \in 1..Len(Png10) }
             => \A k \in 1..n : rows[k].slide_number = getNumber(rows[k].image.name)

\* the high-resolution strategy has saved the ten files slide-01 .. slide-10
C9_Witness ==
  /\ pc = "saveHi"
  /\ idx > Len(queue)
  /\ Len(queue) = 10
  /\ Len(slides) = 10
  /\ slides[10].image.name = pngName(<<"1", "0">>)

\* ------------------------------------------------------------------------
\* C10
\* ------------------------------------------------------------------------

\* C10: when a conversion strategy succeeded, no scratch image and no
\* intermediate PDF of the upload remains when processPresentation returns
C10_ScratchRemovedAfterSuccess ==
  (result = "returned" /\ success) => (imagesDir = <<>> /\ ~pdfExists)

\* ------------------------------------------------------------------------
\* C11
\* ------------------------------------------------------------------------

\* getSlideCount has returned: the output directory exists and the call is
\* past the assignment of totalSlides
SlideCountDetected == outputDirExists /\ pc # "getSlideCount"

\* the extension is .pptx in any mix of upper and lower case
IsPptxExtension(ext) ==
  /\ Len(ext) >= Len(cPptx)
  /\ \A i \in 1..Len(cPptx) :
       toLowerChar(ext[Len(ext) - Len(cPptx) + i]) = cPptx[i]

\* the number of <p:sldId markers of the manifest, 0 without a manifest
ManifestMarkers(u) ==
  IF \E k \in 1..Len(u.entries) : u.entries[k] = cManifest THEN u.sldIds ELSE 0

\* C11: getSlideCount always returns an integer >= 1: the number of slide-XML
\* entries if that is > 0, otherwise the number of slide-id markers of the
\* manifest if that is > 0, otherwise 10; and 10 when the path does not end
\* in .pptx (case-insensitive) or the archive cannot be read
C11_SlideCountPositive ==
  SlideCountDetected =>
    LET n == Cardinality({ k \in 1..Len(upload.entries) :
                             isSlideXml(upload.entries[k]) })
        m == ManifestMarkers(upload)
    IN  /\ totalSlides \in Nat
        /\ totalSlides >= 1
        /\ totalSlides =
             IF ~IsPptxExtension(upload.ext) \/ ~upload.readable THEN 10
             ELSE IF n > 0 THEN n
             ELSE IF m > 0 THEN m
             ELSE 10

\* the count of an archive named .PPTX with two slide-XML entries is 2
C11_Witness ==
  /\ SlideCountDetected
  /\ upload.ext = <<".", "P", "P", "T", "X">>
  /\ totalSlides = 2

\* ------------------------------------------------------------------------
\* C12
\* ------------------------------------------------------------------------

\* exactly n placeholder slides numbered 1..n, each labelled with total n
PlaceholdersOnly(n) ==
  /\ Len(slides) = n
  /\ \A k \in 1..n : /\ slides[k].slide_number = k
                     /\ slides[k].image.kind = "placeholder"
                     /\ slides[k].image.number = k
                     /\ slides[k].image.total = n

CreateFailed == \E e \in CallsOf("createPresentation") : ~trace[e].ok

\* the record was created and the output directory could not be made
MkdirFailed ==
  /\ \E e \in CallsOf("createPresentation") : trace[e].ok
  /\ ~outputDirExists
  /\ pc \in {"catch", "done"}

\* C20: if creating the Presentation record or the output directory fails,
\* processPresentation throws that same error, no slide is persisted for the
\* upload, and the upload endpoint answers 500 with the error's message
C20_SetupFailurePropagates ==
  (CreateFailed \/ MkdirFailed) =>
    LET thrown == IF CreateFailed THEN PresentationInsertError ELSE MkdirError
    IN  /\ error = thrown
        /\ pc \in {"catch", "done"}
        /\ pc = "done" => result = "thrown"
        /\ slides = <<>>
        /\ CallsOf("saveSlide") = {}
        /\ response # NoResponse =>
             /\ response.status = 500
             /\ response.message = thrown.message

\* the endpoint has answered 500 after mkdir failed
C20_Witness ==
  /\ MkdirFailed
  /\ result = "thrown"
  /\ response.status = 500
  /\ response.message = MkdirError.message
  /\ presentations # {}

\* ------------------------------------------------------------------------
\* Vocabulary of the claims about the annotation store
\* ------------------------------------------------------------------------

\* the annotation rows of a slide
RowsFor(slideId) == Filter(annotations, LAMBDA r : r.slide_id = slideId)

\* the object getAnnotations returns has a key for the slide; its value
HasEntry(obj, slideId) == \E i \in 1..Len(obj) : obj[i][1] = slideId
EntryOf(obj, slideId) == obj[CHOOSE i \in 1..Len(obj) : obj[i][1] = slideId][2]

\* the request of c was a call of saveAnnotations that has been answered
SaveAnswered(c) ==
  /\ req[c].op = "saveAnnotations"
  /\ req[c].pc = "responded"
  /\ req[c].status # 400

\* the database rejected a statement of the request of c
DbFailed(c) ==
  req[c].message \in {SlideLookupError.message, AnnotationInsertError.message}

\* the store has exactly the tags of the answered request of c for its slide
StoredExactly(c) ==
  LET s == req[c].slideId
      obj == getAnnotations(getSlide(s).presentation_id)
  IN  IF req[c].tags = <<>>
      THEN ~HasEntry(obj, s) /\ Len(RowsFor(s)) = 0
      ELSE /\ HasEntry(obj, s)
           /\ EntryOf(obj, s) = req[c].tags
           /\ Len(RowsFor(s)) = 1

\* ------------------------------------------------------------------------
\* C13
\* ------------------------------------------------------------------------

\* C13: after saveAnnotations(s, B) on an existing slide s, whatever was
\* saved for s before, getAnnotations(p) maps s to exactly B when B is not
\* empty and has no entry for s when B is empty, and the entries of the other
\* slides are unchanged (no other request wrote the table meanwhile)
C13_SaveReplaces ==
  \A c \in Clients :
    (SaveAnswered(c) /\ req[c].status = 200 /\ req[c].alone
       /\ getSlide(req[c].slideId) # NoSlide)
    => StoredExactly(c) /\ req[c].othersKept

\* the first slide had tags, TagsTwo was then saved for it and is what
\* getAnnotations returns, next to the entry of the second slide
C13_Witness ==
  \E c \in Clients :
    /\ SaveAnswered(c) /\ req[c].status = 200 /\ req[c].alone
    /\ req[c].slideId = 2
    /\ req[c].tags = TagsTwo
    /\ sqliteOutput # <<>>
    /\ EntryOf(getAnnotations(StoredPresentationId), 2) = TagsTwo
    /\ HasEntry(getAnnotations(StoredPresentationId), 3)

\* ------------------------------------------------------------------------
\* C14
\* ------------------------------------------------------------------------

\* C14: in every reachable state of the primary store a slide has at most one
\* annotation record, also when two saveAnnotations requests for the same
\* slide interleave at their await points
C14_OneRecordPerSlide ==
  \A k \in 1..Len(annotations) : Len(RowsFor(annotations[k].slide_id)) <= 1

\* ------------------------------------------------------------------------
\* C15
\* ------------------------------------------------------------------------

\* C15: every annotation record references a slide that exists and carries
\* the presentation identifier of that slide
C15_AnnotationReferencesSlide ==
  \A k \in 1..Len(annotations) :
    \E j \in 1..Len(slides) :
       /\ slides[j].slide_id = annotations[k].slide_id
       /\ slides[j].presentation_id = annotations[k].presentation_id

\* a request for a slide that does not exist was refused, and the table has
\* a record written by a request of this run
C15_Witness ==
  /\ \E c \in Clients :
       /\ req[c].op = "saveAnnotations" /\ req[c].pc = "responded"
       /\ req[c].slideId = MissingSlideId
       /\ req[c].status = 500
       /\ getSlide(MissingSlideId) = NoSlide
  /\ \E c \in Clients :
       /\ SaveAnswered(c) /\ req[c].status = 200 /\ req[c].tags # <<>>
       /\ RowsFor(req[c].slideId) # <<>>

\* ------------------------------------------------------------------------
\* C16
\* ------------------------------------------------------------------------

\* this step is the update of POST /api/presentations/id/submit
SubmitStep(id) ==
  /\ sent' = sent + 1
  /\ uuids' = uuids
  /\ \E c \in Clients :
       /\ req[c].pc \in {"idle", "responded"}
       /\ req'[c].op = "submit"
       /\ req'[c].pc = "responded"
       /\ req'[c].presentationId = id
       /\ \A d \in Clients \ {c} :
            /\ req'[d].op = req[d].op
            /\ req'[d].pc = req[d].pc
            /\ req'[d].status = req[d].status
            /\ req'[d].slideId = req[d].slideId
            /\ req'[d].presentationId = req[d].presentationId
            /\ Len(req'[d].body) = Len(req[d].body)

\* C16: a presentation is created with submitted false; the flag becomes true
\* only by submitPresentation for that presentation, is true after it, never
\* returns to false, and no step changes anything else of a presentation
\* record or deletes one
C16_SubmittedOnlyBySubmit ==
  [][ /\ \A p \in presentations :
           \E q \in presentations' :
              /\ q.id = p.id
              /\ q.name = p.name
              /\ p.submitted => q.submitted
              /\ q.submitted # p.submitted => SubmitStep(p.id)
      /\ \A q \in presentations' :
           /\ SubmitStep(q.id) => q.submitted
           /\ (\A p \in presentations : p.id # q.id) => ~q.submitted
           /\ \A r \in presentations' : r.id = q.id => r = q ]_vars

\* the stored presentation was submitted by a request of this run while an
\* uploaded one stays unsubmitted
C16_Witness ==
  /\ \E c \in Clients : req[c].op = "submit" /\ req[c].pc = "responded"
  /\ \E p \in presentations : p.id = StoredPresentationId /\ p.submitted
  /\ \E p \in presentations : p.id # StoredPresentationId /\ ~p.submitted

\* ------------------------------------------------------------------------
\* C17
\* ------------------------------------------------------------------------

\* C17: saveAnnotations on a slide of a submitted presentation succeeds,
\* replaces the stored tags as it does before submission, and leaves the
\* submitted flag true
C17_SubmissionDoesNotFreeze ==
  \A c \in Clients :
    (SaveAnswered(c) /\ req[c].submittedBefore /\ req[c].alone /\ ~DbFailed(c))
    => /\ req[c].status = 200
       /\ StoredExactly(c)
       /\ SlideSubmitted(req[c].slideId)

\* after the submission the tags of the first slide were replaced by TagsTwo
C17_Witness ==
  \E c \in Clients :
    /\ SaveAnswered(c) /\ req[c].submittedBefore /\ req[c].alone
    /\ req[c].status = 200
    /\ req[c].tags = TagsTwo
    /\ RowsFor(2) = << annotationRow(2, StoredSlides[1], TagsTwo) >>

\* ------------------------------------------------------------------------
\* C18
\* ------------------------------------------------------------------------

\* C18: no step of saveAnnotations, getAnnotations, getSlides, getSlide or
\* submitPresentation, and no step of an upload, changes or deletes a slide
\* row of the primary store
C18_SlidesImmutable ==
  [][ \A k \in 1..Len(slides) :
        /\ k <= Len(slides')
        /\ slides'[k] = slides[k] ]_vars

\* annotations were saved, the presentation was submitted and an upload
\* added its slide; the two stored rows are as they were
C18_Witness ==
  /\ \E c \in Clients : SaveAnswered(c) /\ req[c].status = 200
  /\ \E c \in Clients : req[c].op = "submit" /\ req[c].pc = "responded"
  /\ Len(slides) = 3
  /\ SubSeq(slides, 1, 2) = StoredSlides

\* ------------------------------------------------------------------------
\* C19
\* ------------------------------------------------------------------------

\* C19: when the mirror write inside saveSlide or saveAnnotations fails, the
\* operation completes, the primary row written just before is kept, and no
\* error reaches the caller
C19_MirrorFailureSwallowed ==
  mirrorDown =>
    /\ \A c \in Clients :
         (SaveAnswered(c) /\ req[c].slide # NoSlide /\ ~DbFailed(c))
         => /\ req[c].status = 200
            /\ req[c].alone =>
                 \E k \in 1..Len(annotations) :
                    annotations[k] =
                      annotationRow(req[c].slideId, req[c].slide, req[c].tags)
    /\ \A e \in Persisted :
         /\ \E k \in 1..Len(slides) :
              /\ slides[k].slide_number = trace[e].num
              /\ slides[k].image = trace[e].img
              /\ slides[k].presentation_id # StoredPresentationId
         /\ error = NoError
    /\ sqliteOutput = <<>>
    /\ sqliteInput = <<>>

\* with the mirror down, a save request was answered 200 and its row is in
\* the primary store, and the upload stored its slide
C19_Witness ==
  /\ mirrorDown
  /\ \E c \in Clients :
       /\ SaveAnswered(c) /\ req[c].status = 200 /\ req[c].tags = TagsTwo
       /\ req[c].alone
       /\ RowsFor(req[c].slideId) # <<>>
  /\ Persisted # {}
  /\ Len(slides) = 3
  /\ sqliteOutput = <<>>

\* ------------------------------------------------------------------------
\* C21
\* ------------------------------------------------------------------------

\* the primary store accepted every write of the call, and the output
\* directory could be made
StoreAccepted == ~CreateFailed /\ ~MkdirFailed /\ saveFailures = 0

\* the calls of external tools that failed: the command ended with an error,
\* or soffice ended and left no PDF
FailedTools ==
  { k \in Calls : trace[k].op \in RasterTools \cup {"soffice"} /\ ~trace[k].ok }

\* C21: whatever the external conversion tools do (missing binary, non-zero
\* exit, no output), a call of processPresentation whose writes the primary
\* store accepted returns the presentation id, and at least one slide is
\* persisted for that presentation
C21_ToolFailureNeverFails ==
  (pc = "done" /\ StoreAccepted)
  => /\ result = "returned"
     /\ error = NoError
     /\ presentationId # 0
     /\ getPresentation(presentationId) # {}
     /\ RowsOf(presentationId) # {}

\* soffice failed twice and no rasterizer ran; the call returned and the
\* slides come from the archive
C21_Witness ==
  /\ pc = "done"
  /\ StoreAccepted
  /\ \E k \in FailedTools : trace[k].op = "soffice" /\ trace[k].tier = "A"
  /\ \E k \in FailedTools : trace[k].op = "soffice" /\ trace[k].tier = "B"
  /\ ConvertersFailed
  /\ result = "returned"
  /\ RowsOf(presentationId) # {}

\* ------------------------------------------------------------------------
\* C22
\* ------------------------------------------------------------------------

\* the content type that matches the byte signature of a payload
SignatureType(bytes) ==
  LET text == toStringUtf8(bytes)
  IN  IF startsWith(text, cXmlDecl) \/ startsWith(text, cSvgTag) THEN "image/svg+xml"
      ELSE IF Len(bytes) >= 2 /\ bytes[1] = 255 /\ bytes[2] = 216 THEN "image/jpeg"
      ELSE IF Len(bytes) >= 4 /\ SubSeq(bytes, 1, 4) = << 137, 80, 78, 71 >>
           THEN "image/png"
      ELSE IF Len(bytes) >= 3 /\ SubSeq(bytes, 1, 3) = << 71, 73, 70 >>
           THEN "image/gif"
      ELSE "none"

\* C22: the slide-image route declares the content type that matches the
\* byte signature of the payload; every placeholder and every schematic slide
\* of the pipeline, which begin with an XML declaration, is served as
\* image/svg+xml
C22_ContentTypeMatchesSignature ==
  imageResponse.status = 200
  => LET image == getSlide(imageResponse.slideId).image
     IN  /\ imageResponse.contentType = SignatureType(imageBytes(image))
         /\ image.kind \in {"placeholder", "rich"}
              => imageResponse.contentType = "image/svg+xml"

\* ------------------------------------------------------------------------
\* C23
\* ------------------------------------------------------------------------

\* C23: an image that relationship resolution attached to a slide was found
\* through the relationship file of that slide, which maps one of the embed
\* identifiers of the slide to it; the relationship file of another slide
\* never contributes an image
C23_OwnRelationshipsOnly ==
  \A i \in 1..Len(slideImages) :
    \A k \in 1..Len(slideImages[i]) :
      LET slide == zipSlideXMLs(zip)[i]
          image == slideImages[i][k]
      IN  image.rels # <<>>
          => /\ image.rels = ownRelsName(slide.entryName)
             /\ \E e \in 1..Len(slide.embeds), j \in 1..Len(zip) :
                  /\ zip[j].entryName = image.rels
                  /\ targetMatch(zip[j].relationships, slide.embeds[e]) # <<>>
                  /\ mediaPath(targetMatch(zip[j].relationships, slide.embeds[e]))
                       = image.entryName

\* ------------------------------------------------------------------------
\* C24
\* ------------------------------------------------------------------------

\* C24: in a run of processPresentation the presentation record is created
\* before the first saveSlide call, every persisted slide carries the
\* identifier of that presentation, and that identifier has exactly one
\* presentation record
C24_PresentationBeforeSlides ==
  /\ \A k \in CallsOf("saveSlide") :
       \E j \in CallsOf("createPresentation") : j < k /\ trace[j].ok
  /\ \A k \in 1..Len(slides) :
       /\ slides[k].presentation_id = presentationId
       /\ Cardinality(getPresentation(slides[k].presentation_id)) = 1

\* the call has returned with slides of two tiers under its presentation
C24_Witness ==
  /\ result = "returned"
  /\ Len(slides) >= 2
  /\ \E j, k \in Persisted : trace[j].tier # trace[k].tier
  /\ trace[1].op = "createPresentation"
  /\ getPresentation(presentationId) # {}

\* ------------------------------------------------------------------------
\* C27
\* ------------------------------------------------------------------------

\* C27: every row of the input table of the mirror has a slide of the
\* primary store with the same presentation id, slide id and slide number
C27_MirrorWithinPrimary ==
  \A k \in 1..Len(sqliteInput) :
    \E j \in 1..Len(slides) :
       /\ slides[j].presentation_id = sqliteInput[k].presentation_id
       /\ slides[j].slide_id = sqliteInput[k].slide_id
       /\ slides[j].slide_number = sqliteInput[k].slide_number

\* a primary insert failed and left no mirror row, the other slides are
\* mirrored one to one
C27_Witness ==
  /\ pc = "done"
  /\ saveFailures > 0
  /\ Len(sqliteInput) >= 2
  /\ Len(sqliteInput) = Len(slides)
  /\ \E k \in CallsOf("saveSlide") : ~trace[k].ok

\* ------------------------------------------------------------------------
\* C28
\* ------------------------------------------------------------------------

\* the records of the mirror table output for a slide of a presentation
OutputRowsFor(out, pid, slideId) ==
  Filter(out, LAMBDA r : r.presentation_id = pid /\ r.slide_id = slideId)

\* the records of the mirror table output for the other slides
OtherOutputRows(out, pid, slideId) ==
  Filter(out, LAMBDA r : ~(r.presentation_id = pid /\ r.slide_id = slideId))

\* this step is the mirror write of the request of c, which has a non-empty
\* list: afterwards the one record of its slide holds that list, and the
\* records of the other slides are as before
MirrorWriteStep(c) ==
  LET pid == req[c].slide.presentation_id
      s == req[c].slideId
  IN  /\ req[c].op = "saveAnnotations"
      /\ req[c].pc = "inserted"
      /\ req'[c].pc = "responded"
      /\ req[c].tags # <<>>
      /\ OutputRowsFor(sqliteOutput', pid, s)
           = << [presentation_id |-> pid, slide_id |-> s,
                 tags |-> stringify(req[c].tags)] >>
      /\ OtherOutputRows(sqliteOutput', pid, s)
           = OtherOutputRows(sqliteOutput, pid, s)

\* C28: saveAnnotations(s, []) removes the primary annotation of s and does
\* not write the mirror table output; the table changes only by the mirror
\* write of a non-empty list, after which the single record of that
\* (presentation, slide) holds the list just saved, and it never has two
\* records for one (presentation, slide)
C28_EmptySaveSkipsMirror ==
  /\ [](\A c \in Clients :
          (SaveAnswered(c) /\ req[c].status = 200 /\ req[c].tags = <<>>
             /\ req[c].alone)
          => RowsFor(req[c].slideId) = <<>>)
  /\ [](\A i, j \in 1..Len(sqliteOutput) :
          (/\ sqliteOutput[i].presentation_id = sqliteOutput[j].presentation_id
           /\ sqliteOutput[i].slide_id = sqliteOutput[j].slide_id) => i = j)
  /\ [][sqliteOutput' # sqliteOutput
          => \E c \in Clients : MirrorWriteStep(c)]_vars

\* TagsTwo was saved for the first slide and then the empty list: the primary
\* store has no annotation for the slide, the mirror still holds TagsTwo
C28_Witness ==
  \E c \in Clients :
    /\ SaveAnswered(c) /\ req[c].status = 200 /\ req[c].alone
    /\ req[c].slideId = 2
    /\ req[c].tags = <<>>
    /\ RowsFor(2) = <<>>
    /\ ~HasEntry(getAnnotations(StoredPresentationId), 2)
    /\ OutputRowsFor(sqliteOutput, StoredPresentationId, 2)
         = << [presentation_id |-> StoredPresentationId, slide_id |-> 2,
               tags |-> stringify(TagsTwo)] >>

\* ------------------------------------------------------------------------
\* C29
\* ------------------------------------------------------------------------

\* C29: when the lookup or the insert of saveAnnotations fails after the
\* delete, the call is answered 500 and the slide is left without annotation
\* in the primary store; for a slide id that does not exist a non-empty list
\* is answered 500 "Slide not found" and the empty list 200, and neither
\* store gets a record for that id (no other request wrote the table
\* meanwhile)
C29_SaveNotAtomic ==
  \A c \in Clients :
    (SaveAnswered(c) /\ req[c].alone)
    => /\ DbFailed(c)
            => req[c].status = 500 /\ RowsFor(req[c].slideId) = <<>>
       /\ (getSlide(req[c].slideId) = NoSlide /\ ~DbFailed(c))
            => /\ req[c].tags # <<>>
                    => /\ req[c].status = 500
                       /\ req[c].message = responseMessage(SlideNotFound)
               /\ req[c].tags = <<>> => req[c].status = 200
               /\ RowsFor(req[c].slideId) = <<>>
               /\ \A k \in 1..Len(sqliteOutput) :
                     sqliteOutput[k].slide_id # req[c].slideId

\* the insert for the first slide failed after the delete: the primary store
\* has no annotation for the slide, whose earlier list the mirror still holds
C29_Witness ==
  \E c \in Clients :
    /\ SaveAnswered(c) /\ req[c].alone
    /\ req[c].message = AnnotationInsertError.message
    /\ req[c].slideId = 2
    /\ RowsFor(2) = <<>>
    /\ OutputRowsFor(sqliteOutput, StoredPresentationId, 2) # <<>>

\* ------------------------------------------------------------------------
\* C25
\* ------------------------------------------------------------------------

\* C25: after Edit of the slide at index k on the review page, and until
\* the user pages, the annotation page displays the slide at the index that
\* handleEditSlide wrote to the store
C25_EditOpensSlide ==
  (location = "annotate" /\ arrivedByEdit)
  => currentSlideIndex = store.currentSlideIndex

\* ------------------------------------------------------------------------
\* C26
\* ------------------------------------------------------------------------

\* C26: whenever submit is triggered on the review page, loading has
\* finished, no submit request is in flight and a slide of the store has
\* annotations; the browser never has two submit requests in flight
C26_SubmitOnlyWhenIdle ==
  /\ submitTrigger.triggered
       => /\ ~submitTrigger.isLoading
          /\ submitTrigger.inFlight = 0
          /\ submitTrigger.annotated > 0
  /\ submitsInFlight <= 1

\* ------------------------------------------------------------------------
\* C30
\* ------------------------------------------------------------------------

\* C30: while the upload is pending the progress is between 0 and 90; it is
\* 100 only after a successful response; after a failed attempt, and until
\* the next upload is started, the progress is 0
C30_ProgressAfterAttempt ==
  /\ uploadMutation = "pending" => progress \in 0..ProgressCap
  /\ progress = ProgressDone => uploadMutation = "success"
  /\ uploadMutation = "error" => progress = 0

====
